---- MODULE Spec2Model ----
(***************************************************************************)
(* Model of the hardware simulator (src/hardware_simulator.py) and of the  *)
(* multi-pump controller (src/multi_pump_controller.py).                   *)
(*                                                                         *)
(* Quantities the program keeps as floats are kept as exact integers in    *)
(* fixed units:                                                            *)
(*   flow rates      1/FlowScale ml/min                                    *)
(*   elapsed time    1/TimeScale s   (one update_interval of the loop)     *)
(*   volumes         1/(FlowScale*60*TimeScale) ml, so that the loop's     *)
(*                   (flow_rate / 60.0) * elapsed is flow_rate * elapsed   *)
(*   amplitude, power level   percent                                      *)
(*   atomization rate 1/10 ml/h, droplet size 1/100 um                     *)
(* Every input set below is chosen so that the program's arithmetic is     *)
(* exact in these units (see FrequencyRescaleExact).                       *)
(***************************************************************************)
EXTENDS Integers, Sequences, FiniteSets, TLC

VARIABLES
    pump,    \* the fields of one BartelsPumpSimulator
    loops,   \* the _simulate_running threads of the pump: "unborn", "run", "done"
    atom,    \* the fields of one UltrasonicAtomizerSimulator
    th,      \* the calling threads: where each is inside the call it is making
    refills, \* accepted refill calls so far
    ev,      \* the step just taken: which call, which step of it, what it returned
    status,  \* the dict a get_status call is building, or has returned last
    pairs,   \* the (target_flow_rate, amplitude) pairs the setters have left behind
    aloop,   \* the _simulate_running thread of the atomizer
    fleet,   \* the pumps of a MultiPumpController, by pump id
    floop,   \* the _simulate_running thread of each pump of the controller
    task,    \* the worker thread the controller has started for each pump
    ctl,     \* the thread that calls the controller's methods
    seq,     \* where that thread is inside run_synchronized_sequence
    reg,     \* the pumps and the atomizers of a HardwareSimulator, by device id
    clk,     \* time.time() as the atomizer reads it, and the time it has spent ON
    lt       \* where the pump's loop is inside a pass, and the operands it holds

\* the controller and its pumps
fvars == <<fleet, floop, task, ctl, seq>>

\* the registry, the clock and the inside of a pass
rvars == <<reg, clk, lt>>

\* what the lifecycle and the setpoint specifications leave alone
ext == <<status, pairs, aloop, fvars, rvars>>

vars == <<pump, loops, atom, th, refills, ev, ext>>

(***************************************************************************)
(* Units and bounds                                                        *)
(***************************************************************************)
FlowScale == 40
TimeScale == 10

MaxVolume == 32      \* initial volume of the pump, in volume units
MaxStarts == 2       \* loop threads spawned in one run
MaxElapsed == 2      \* longest time between two loop iterations, in time units
MaxRefills == 1      \* accepted refills in one run
MaxPressure == 10    \* the pressure walk is followed up to this value (mbar)

NoRate == -999       \* rate=None of dispense_volume

MaxFlowRate == 14 * FlowScale
PressureLimit == 500
PressureJitter == 10

Threads == {"ctl", "task"}
Callers == {"ctl"}
LoopIds == 1..MaxStarts

\* Inputs of the lifecycle specification: rates of 0.2 and 0.4 ml/min, which the
\* loop reaches in one or two iterations, and one rate out of range.
RunRates == {0, 8, 16, MaxFlowRate + 1}
RunVolumes == {0, 16, 64}
RefillVolumes == {0, 16}

(***************************************************************************)
(* BartelsPumpSimulator.__init__                                           *)
(***************************************************************************)
NewPump(initial_volume, simulate_errors) ==
    [state |-> "OFF",
     flow_rate |-> 0,
     target_flow_rate |-> 0,
     volume_remaining |-> initial_volume,
     simulate_errors |-> simulate_errors,
     pressure |-> 0,
     running |-> FALSE,
     thread |-> 0,
     total_volume_dispensed |-> 0,
     frequency |-> 100,
     amplitude |-> 0,
     mode |-> "frequency",
     fault_status |-> FALSE]

\* UltrasonicAtomizerSimulator.__init__
NewAtomizer ==
    [state |-> "OFF",
     frequency |-> 113,
     power_level |-> 50,
     atomization_rate |-> 150,
     volume_atomized |-> 0,
     running |-> FALSE,
     droplet_size |-> 300,
     operation_time |-> 0,
     last_start_time |-> 0]   \* 0 is None; the clock starts at 1

\* snap is the devices as a shutdown call found them
Idle ==
    [pc |-> "idle", op |-> "none", volume |-> 0, was_off |-> FALSE,
     vol0 |-> 0, tot0 |-> 0, arg |-> 0, snap |-> <<>>]

\* ret is "none" while the call goes on, and "ok" (True), "fail" (False) or
\* "raised" (an exception left the call) in the step that ends it; call is the
\* caller's record as the step found it.
EventOf(step, op, ret, a1, a2, call) ==
    [step |-> step, op |-> op, ret |-> ret, a1 |-> a1, a2 |-> a2, s |-> "",
     call |-> call]
Event(step, op, ret, a1, a2) == EventOf(step, op, ret, a1, a2, Idle)
EventS(step, op, ret, s) == [Event(step, op, ret, 0, 0) EXCEPT !.s = s]

Min(a, b) == IF a < b THEN a ELSE b
Max(a, b) == IF a > b THEN a ELSE b

(***************************************************************************)
(* Pure parts of the pump's methods                                        *)
(***************************************************************************)
\* set_flow_rate, line 110
FlowRateValid(rate) == ~(rate < 0 \/ rate > MaxFlowRate)

\* as AmplitudeFor, rounding to the nearest percent instead of truncating
AmplitudeRoundedFor(rate) == Min(100, (rate * 100 * 2 + MaxFlowRate) \div (2 * MaxFlowRate))

\* set_flow_rate, line 118: min(100, int((rate / 14.0) * 100))
AmplitudeFor(rate) == Min(100, (rate * 100) \div MaxFlowRate)

\* set_flow_rate, lines 114-118, on a valid rate
WithFlowRate(p, rate) ==
    [p EXCEPT !.target_flow_rate = rate, !.amplitude = AmplitudeFor(rate)]

(***************************************************************************)
(* start, lines 71-84.  The test of line 73 and the body of lines 74-81    *)
(* are two steps: another thread can run between them.                     *)
(***************************************************************************)
LoopsLeft == \E l \in LoopIds : loops[l] = "unborn"
NextLoop == CHOOSE l \in LoopIds : loops[l] = "unborn" /\ \A k \in LoopIds : loops[k] = "unborn" => l <= k

\* as StartCall, with the test of line 73 written as "not ON"
StartCallNotOn(t) ==
    /\ th[t].pc = "idle"
    /\ pump.state # "ON" => LoopsLeft
    /\ IF pump.state # "ON"
         THEN /\ th' = [th EXCEPT ![t] = [Idle EXCEPT !.pc = "start_set", !.op = "start"]]
              /\ ev' = Event("StartCall", "start", "none", 0, 0)
         ELSE /\ th' = th
              /\ ev' = Event("StartCall", "start", "fail", 0, 0)
    /\ UNCHANGED <<pump, loops, atom, refills, ext>>

StartCall(t) ==
    /\ th[t].pc = "idle"
    /\ pump.state = "OFF" => LoopsLeft
    /\ IF pump.state = "OFF"
         THEN /\ th' = [th EXCEPT ![t] = [Idle EXCEPT !.pc = "start_set", !.op = "start"]]
              /\ ev' = Event("StartCall", "start", "none", 0, 0)
         ELSE /\ th' = th
              /\ ev' = Event("StartCall", "start", "fail", 0, 0)
    /\ UNCHANGED <<pump, loops, atom, refills, ext>>

\* lines 74-81: the new thread becomes self.thread
StartSet(t) ==
    /\ th[t].pc = "start_set"
    /\ LoopsLeft
    /\ pump' = [pump EXCEPT !.state = "ON", !.running = TRUE, !.thread = NextLoop]
    /\ loops' = [loops EXCEPT ![NextLoop] = "run"]
    /\ IF th[t].op = "dispense_volume"
         THEN /\ th' = [th EXCEPT ![t].pc = "d_time"]
              /\ ev' = Event("StartSet", "dispense_volume", "none", 0, 0)
         ELSE /\ th' = [th EXCEPT ![t] = Idle]
              /\ ev' = Event("StartSet", "start", "ok", 0, 0)
    /\ UNCHANGED <<atom, refills, ext>>

(***************************************************************************)
(* stop, lines 86-98                                                       *)
(***************************************************************************)
\* as StopCall, with the test of line 88 written as "not OFF"
StopCallNotOff(t) ==
    /\ th[t].pc = "idle"
    /\ IF pump.state # "OFF"
         THEN /\ th' = [th EXCEPT ![t] = [Idle EXCEPT !.pc = "stop_sig", !.op = "stop"]]
              /\ ev' = Event("StopCall", "stop", "none", 0, 0)
         ELSE /\ th' = th
              /\ ev' = Event("StopCall", "stop", "fail", 0, 0)
    /\ UNCHANGED <<pump, loops, atom, refills, ext>>

\* line 88 (and 96-98)
StopCall(t) ==
    /\ th[t].pc = "idle"
    /\ IF pump.state = "ON"
         THEN /\ th' = [th EXCEPT ![t] = [Idle EXCEPT !.pc = "stop_sig", !.op = "stop"]]
              /\ ev' = Event("StopCall", "stop", "none", 0, 0)
         ELSE /\ th' = th
              /\ ev' = Event("StopCall", "stop", "fail", 0, 0)
    /\ UNCHANGED <<pump, loops, atom, refills, ext>>

\* line 89
StopSignal(t) ==
    /\ th[t].pc = "stop_sig"
    /\ pump' = [pump EXCEPT !.running = FALSE]
    /\ th' = [th EXCEPT ![t].pc = "stop_join"]
    /\ ev' = Event("StopSignal", th[t].op, "none", 0, 0)
    /\ UNCHANGED <<loops, atom, refills, ext>>

\* as StopJoin, going on to line 92 whether the thread has ended or not
StopJoinNoWait(t) ==
    /\ th[t].pc = "stop_join"
    /\ th' = [th EXCEPT ![t].pc = "stop_off"]
    /\ ev' = Event("StopJoin", th[t].op, "none", 0, 0)
    /\ UNCHANGED <<pump, loops, atom, refills, ext>>

\* lines 90-91: join returns once self.thread has ended.  The loop sleeps
\* update_interval = 0.1 s between two tests of self.running and never blocks,
\* so it ends well inside the timeout of 1.0 s.
StopJoin(t) ==
    /\ th[t].pc = "stop_join"
    /\ pump.thread = 0 \/ loops[pump.thread] = "done"
    /\ th' = [th EXCEPT ![t].pc = "stop_off"]
    /\ ev' = Event("StopJoin", th[t].op, "none", 0, 0)
    /\ UNCHANGED <<pump, loops, atom, refills, ext>>

\* line 92
StopOff(t) ==
    /\ th[t].pc = "stop_off"
    /\ pump' = [pump EXCEPT !.state = "OFF"]
    /\ th' = [th EXCEPT ![t].pc = "stop_zero"]
    /\ ev' = Event("StopOff", th[t].op, "none", 0, 0)
    /\ UNCHANGED <<loops, atom, refills, ext>>

\* as StopZero, without line 93
StopZeroKeepsFlow(t) ==
    /\ th[t].pc = "stop_zero"
    /\ IF th[t].op = "shutdown"
         THEN /\ th' = [th EXCEPT ![t].pc = "sh_atomizer"]
              /\ ev' = Event("StopZero", "shutdown", "none", 0, 0)
         ELSE /\ th' = [th EXCEPT ![t] = Idle]
              /\ ev' = EventOf("StopZero", th[t].op, "ok", 0, 0, th[t])
    /\ UNCHANGED <<pump, loops, atom, refills, ext>>

\* lines 93-95; inside dispense_volume, lines 256-259 follow; inside shutdown,
\* the atomizers of lines 623-625
StopZero(t) ==
    /\ th[t].pc = "stop_zero"
    /\ pump' = [pump EXCEPT !.flow_rate = 0]
    /\ IF th[t].op = "shutdown"
         THEN /\ th' = [th EXCEPT ![t].pc = "sh_atomizer"]
              /\ ev' = Event("StopZero", "shutdown", "none", 0, 0)
         ELSE /\ th' = [th EXCEPT ![t] = Idle]
              /\ ev' = EventOf("StopZero", th[t].op, "ok", 0, 0, th[t])
    /\ UNCHANGED <<loops, atom, refills, ext>>

(***************************************************************************)
(* set_flow_rate, lines 100-124, and refill, lines 261-277                 *)
(***************************************************************************)
SetFlowRate(t, rate) ==
    /\ th[t].pc = "idle"
    /\ IF FlowRateValid(rate)
         THEN /\ pump' = WithFlowRate(pump, rate)
              /\ ev' = Event("SetFlowRate", "set_flow_rate", "ok", rate, 0)
         ELSE /\ pump' = pump
              /\ ev' = Event("SetFlowRate", "set_flow_rate", "fail", rate, 0)
    /\ UNCHANGED <<loops, atom, th, refills, ext>>

Refill(t, volume) ==
    /\ th[t].pc = "idle"
    /\ IF volume <= 0
         THEN /\ pump' = pump
              /\ refills' = refills
              /\ ev' = Event("Refill", "refill", "fail", volume, 0)
         ELSE /\ refills < MaxRefills
              /\ pump' = [pump EXCEPT !.volume_remaining = @ + volume]
              /\ refills' = refills + 1
              /\ ev' = Event("Refill", "refill", "ok", volume, 0)
    /\ UNCHANGED <<loops, atom, th, ext>>

\* get_status, lines 279-298: the dict it returns when nothing runs between its
\* reads
GetStatusOf(p) ==
    [state |-> p.state,
     flow_rate |-> p.flow_rate,
     target_flow_rate |-> p.target_flow_rate,
     volume_remaining |-> p.volume_remaining,
     pressure |-> p.pressure,
     total_dispensed |-> p.total_volume_dispensed,
     frequency |-> p.frequency,
     amplitude |-> p.amplitude,
     mode |-> p.mode,
     fault_status |-> p.fault_status]

(***************************************************************************)
(* set_frequency, set_amplitude, set_mode: lines 126-213.  The frequency   *)
(* factor is kept in thousandths.                                          *)
(***************************************************************************)
\* _get_frequency_factor, lines 162-168 (and the same formula, lines 148-154)
FrequencyFactor(frequency) ==
    IF frequency < 100
      THEN 500 + (500 * frequency) \div 100
      ELSE IF frequency > 150
             THEN 1000 - (500 * Min(650, frequency - 150)) \div 650
             ELSE 1000

\* line 136
FrequencyValid(frequency) == ~(frequency < 25 \/ frequency > 800)

\* as Rescaled, without the division by the factor of the previous frequency
RescaledByNewFactor(target, frequency, prev_frequency) ==
    (target * FrequencyFactor(frequency)) \div 1000

\* line 157
Rescaled(target, frequency, prev_frequency) ==
    (target * FrequencyFactor(frequency)) \div FrequencyFactor(prev_frequency)

\* as SetFrequency, storing the frequency before the range test of line 136
SetFrequencyStoresFirst(t, frequency) ==
    /\ th[t].pc = "idle"
    /\ IF FrequencyValid(frequency)
         THEN /\ pump' = [pump EXCEPT
                    !.frequency = frequency,
                    !.target_flow_rate = Rescaled(@, frequency, pump.frequency)]
              /\ ev' = Event("SetFrequency", "set_frequency", "ok", frequency, pump.frequency)
         ELSE /\ pump' = [pump EXCEPT !.frequency = frequency]
              /\ ev' = Event("SetFrequency", "set_frequency", "fail", frequency, pump.frequency)
    /\ UNCHANGED <<loops, atom, th, refills, ext>>

SetFrequency(t, frequency) ==
    /\ th[t].pc = "idle"
    /\ IF FrequencyValid(frequency)
         THEN /\ pump' = [pump EXCEPT
                    !.frequency = frequency,
                    !.target_flow_rate = Rescaled(@, frequency, pump.frequency)]
              /\ ev' = Event("SetFrequency", "set_frequency", "ok", frequency, pump.frequency)
         ELSE /\ pump' = pump
              /\ ev' = Event("SetFrequency", "set_frequency", "fail", frequency, pump.frequency)
    /\ UNCHANGED <<loops, atom, th, refills, ext>>

\* as FlowForAmplitude, without the frequency factor
FlowForAmplitudeOnly(amplitude_percent, frequency) ==
    (amplitude_percent * MaxFlowRate) \div 100

\* line 180
AmplitudeValid(amplitude_percent) == ~(amplitude_percent < 0 \/ amplitude_percent > 100)

\* line 188
FlowForAmplitude(amplitude_percent, frequency) ==
    (amplitude_percent * MaxFlowRate * FrequencyFactor(frequency)) \div (100 * 1000)

SetAmplitude(t, amplitude_percent) ==
    /\ th[t].pc = "idle"
    /\ IF AmplitudeValid(amplitude_percent)
         THEN /\ pump' = [pump EXCEPT
                    !.amplitude = amplitude_percent,
                    !.target_flow_rate = FlowForAmplitude(amplitude_percent, pump.frequency)]
              /\ ev' = Event("SetAmplitude", "set_amplitude", "ok", amplitude_percent, 0)
         ELSE /\ pump' = pump
              /\ ev' = Event("SetAmplitude", "set_amplitude", "fail", amplitude_percent, 0)
    /\ UNCHANGED <<loops, atom, th, refills, ext>>

\* line 204
valid_modes == {"analog", "digital", "frequency"}

SetMode(t, mode) ==
    /\ th[t].pc = "idle"
    /\ IF mode \in valid_modes
         THEN /\ pump' = [pump EXCEPT !.mode = mode]
              /\ ev' = EventS("SetMode", "set_mode", "ok", mode)
         ELSE /\ pump' = pump
              /\ ev' = EventS("SetMode", "set_mode", "fail", mode)
    /\ UNCHANGED <<loops, atom, th, refills, ext>>

(***************************************************************************)
(* UltrasonicAtomizerSimulator.set_power_level and set_frequency,          *)
(* lines 435-482                                                           *)
(***************************************************************************)
\* as PowerLevelValid, without the upper limit
PowerLevelNotNegative(level) == ~(level < 0)

\* line 445
PowerLevelValid(level) == ~(level < 0 \/ level > 100)

\* line 454, in tenths of ml/h
AtomizationRateFor(level) == (level * 30 * 10) \div 100

\* line 458, in hundredths of um
DropletSizeFor(level) == 5 * 100 - 4 * level

AtomSetPowerLevel(level) ==
    /\ IF PowerLevelValid(level)
         THEN /\ atom' = [atom EXCEPT !.power_level = level,
                                      !.atomization_rate = AtomizationRateFor(level),
                                      !.droplet_size = DropletSizeFor(level)]
              /\ ev' = Event("AtomSetPowerLevel", "atomizer.set_power_level", "ok", level, 0)
         ELSE /\ atom' = atom
              /\ ev' = Event("AtomSetPowerLevel", "atomizer.set_power_level", "fail", level, 0)
    /\ UNCHANGED <<pump, loops, th, refills, ext>>

\* line 474
AtomFrequencyValid(frequency) == ~(frequency < 108 \/ frequency > 120)

AtomSetFrequency(frequency) ==
    /\ IF AtomFrequencyValid(frequency)
         THEN /\ atom' = [atom EXCEPT !.frequency = frequency]
              /\ ev' = Event("AtomSetFrequency", "atomizer.set_frequency", "ok", frequency, 0)
         ELSE /\ atom' = atom
              /\ ev' = Event("AtomSetFrequency", "atomizer.set_frequency", "fail", frequency, 0)
    /\ UNCHANGED <<pump, loops, th, refills, ext>>

(***************************************************************************)
(* dispense_volume, lines 215-259                                          *)
(***************************************************************************)
\* as DispenseRejects, ignoring what set_flow_rate returned (line 235)
DispenseRejectsVolumeOnly(p, volume, rate) ==
    \/ volume <= 0
    \/ volume > p.volume_remaining

\* lines 226-236
DispenseRejects(p, volume, rate) ==
    \/ volume <= 0
    \/ volume > p.volume_remaining
    \/ rate # NoRate /\ ~FlowRateValid(rate)

\* lines 226-241, with the test of start (line 73) when the pump was off
DispenseCall(t, volume, rate) ==
    /\ th[t].pc = "idle"
    /\ IF DispenseRejects(pump, volume, rate)
         THEN /\ pump' = pump
              /\ th' = th
              /\ ev' = Event("DispenseCall", "dispense_volume", "fail", volume, rate)
         ELSE LET was_off == pump.state = "OFF" IN
              /\ was_off => LoopsLeft
              /\ pump' = IF rate # NoRate THEN WithFlowRate(pump, rate) ELSE pump
              /\ th' = [th EXCEPT ![t] =
                          [pc |-> IF was_off THEN "start_set" ELSE "d_time",
                           op |-> "dispense_volume",
                           volume |-> volume,
                           was_off |-> was_off,
                           vol0 |-> pump.volume_remaining,
                           tot0 |-> pump.total_volume_dispensed,
                           arg |-> rate,
                           snap |-> <<>>]]
              /\ ev' = Event("DispenseCall", "dispense_volume", "none", volume, rate)
    /\ UNCHANGED <<loops, atom, refills, ext>>

\* lines 243-248: volume / self.target_flow_rate raises ZeroDivisionError when the
\* target is 0, and the exception leaves dispense_volume; otherwise the caller
\* sleeps for time_needed.
DispenseTime(t) ==
    /\ th[t].pc = "d_time"
    /\ IF pump.target_flow_rate = 0
         THEN /\ th' = [th EXCEPT ![t] = Idle]
              /\ ev' = EventOf("DispenseTime", "dispense_volume", "raised", 0, 0, th[t])
         ELSE /\ th' = [th EXCEPT ![t].pc = "d_sleep"]
              /\ ev' = Event("DispenseTime", "dispense_volume", "none", 0, 0)
    /\ UNCHANGED <<pump, loops, atom, refills, ext>>

\* lines 250-252 (after the sleep) and, when the pump was not off, lines 258-259
DispenseUpdate(t) ==
    /\ th[t].pc = "d_sleep"
    /\ pump' = [pump EXCEPT !.total_volume_dispensed = @ + th[t].volume,
                            !.volume_remaining = @ - th[t].volume]
    /\ IF th[t].was_off
         THEN /\ th' = [th EXCEPT ![t].pc = "d_stop"]
              /\ ev' = Event("DispenseUpdate", "dispense_volume", "none", 0, 0)
         ELSE /\ th' = [th EXCEPT ![t] = Idle]
              /\ ev' = EventOf("DispenseUpdate", "dispense_volume", "ok", 0, 0, th[t])
    /\ UNCHANGED <<loops, atom, refills, ext>>

\* lines 255-256: the test of stop (line 88); dispense_volume ignores what stop
\* returns and returns True (line 259)
DispenseStop(t) ==
    /\ th[t].pc = "d_stop"
    /\ IF pump.state = "ON"
         THEN /\ th' = [th EXCEPT ![t].pc = "stop_sig"]
              /\ ev' = Event("DispenseStop", "dispense_volume", "none", 0, 0)
         ELSE /\ th' = [th EXCEPT ![t] = Idle]
              /\ ev' = EventOf("DispenseStop", "dispense_volume", "ok", 0, 0, th[t])
    /\ UNCHANGED <<pump, loops, atom, refills, ext>>

(***************************************************************************)
(* _simulate_running, lines 300-350.  One pass of the while loop is one    *)
(* step; elapsed is what time.time() measured since the previous pass (0   *)
(* in the first pass, at least one update_interval afterwards).            *)
(***************************************************************************)
\* as MaxChange, the rate of 2.0 ml/min per second left in whole ml/min
MaxChangeWholeUnits(elapsed) == (2 * elapsed) \div TimeScale

\* line 313
MaxChange(elapsed) == (2 * FlowScale * elapsed) \div TimeScale

\* as Ramp, without the min and the max that stop at the setpoint
RampPastTarget(flow, target, elapsed) ==
    IF flow # target
      THEN IF flow < target
             THEN flow + MaxChange(elapsed)
             ELSE flow - MaxChange(elapsed)
      ELSE flow

\* lines 311-317
Ramp(flow, target, elapsed) ==
    IF flow # target
      THEN IF flow < target
             THEN Min(target, flow + MaxChange(elapsed))
             ELSE Max(target, flow - MaxChange(elapsed))
      ELSE flow

\* line 320, in volume units
VolumeDispensed(flow, elapsed) == flow * elapsed

\* line 337
Jitter(pressure, d) == Max(0, Min(PressureLimit, pressure + d))

\* as TickOf, forcing flow_rate to 0 when the pump runs out of liquid
TickOfClearsFlow(p, elapsed, d, fault) ==
    LET flow == Ramp(p.flow_rate, p.target_flow_rate, elapsed)
        vd == VolumeDispensed(flow, elapsed)
        p1 == [p EXCEPT !.flow_rate = flow]
    IN  IF vd > 0 /\ ~(vd <= p.volume_remaining)
          THEN [p1 EXCEPT !.total_volume_dispensed = @ + p.volume_remaining,
                          !.volume_remaining = 0,
                          !.flow_rate = 0,
                          !.state = "ERROR",
                          !.running = FALSE]
          ELSE LET p2 == IF vd > 0
                           THEN [p1 EXCEPT !.volume_remaining = @ - vd,
                                           !.total_volume_dispensed = @ + vd]
                           ELSE p1
                   p3 == [p2 EXCEPT !.pressure = Jitter(p.pressure, d)]
               IN  IF p.simulate_errors /\ fault
                     THEN [p3 EXCEPT !.state = "ERROR", !.running = FALSE]
                     ELSE p3

\* lines 305-346: one pass; fault is the outcome of random.random() < 0.001
TickOf(p, elapsed, d, fault) ==
    LET flow == Ramp(p.flow_rate, p.target_flow_rate, elapsed)
        vd == VolumeDispensed(flow, elapsed)
        p1 == [p EXCEPT !.flow_rate = flow]
    IN  IF vd > 0 /\ ~(vd <= p.volume_remaining)
          THEN [p1 EXCEPT !.total_volume_dispensed = @ + p.volume_remaining,
                          !.volume_remaining = 0,
                          !.state = "ERROR",
                          !.running = FALSE]
          ELSE LET p2 == IF vd > 0
                           THEN [p1 EXCEPT !.volume_remaining = @ - vd,
                                           !.total_volume_dispensed = @ + vd]
                           ELSE p1
                   p3 == [p2 EXCEPT !.pressure = Jitter(p.pressure, d)]
               IN  IF p.simulate_errors /\ fault
                     THEN [p3 EXCEPT !.state = "ERROR", !.running = FALSE]
                     ELSE p3

\* The pass leaves the loop by break exactly when it cleared self.running.
LoopTick(l, elapsed, d, fault) ==
    /\ loops[l] = "run"
    /\ pump.running
    /\ pump' = TickOf(pump, elapsed, d, fault)
    /\ pump'.pressure <= MaxPressure
    /\ loops' = [loops EXCEPT ![l] = IF pump'.running THEN "run" ELSE "done"]
    /\ ev' = Event("LoopTick", "_simulate_running", "none", elapsed, 0)
    /\ UNCHANGED <<atom, th, refills, ext>>

\* lines 305 and 348-350: the loop sees self.running false and ends
LoopExit(l) ==
    /\ loops[l] = "run"
    /\ ~pump.running
    /\ pump' = IF pump.state # "ERROR" THEN [pump EXCEPT !.flow_rate = 0] ELSE pump
    /\ loops' = [loops EXCEPT ![l] = "done"]
    /\ ev' = Event("LoopExit", "_simulate_running", "none", 0, 0)
    /\ UNCHANGED <<atom, th, refills, ext>>

(***************************************************************************)
(* MultiPumpController.__init__, lines 25-37: the pumps P1..Pn, without    *)
(* simulated errors.  The initial volume is MaxVolume here.                *)
(***************************************************************************)
PumpIds == {"P1", "P2"}
UnknownId == "P9"

NewFleet == [i \in PumpIds |-> NewPump(MaxVolume, FALSE)]

\* a worker thread that does not exist
NoTask == [pc |-> "none", op |-> "none", volume |-> 0, arg |-> 0, was_off |-> FALSE]

\* the controller's thread outside every call; inside one, results is the dict
\* the call will return, asked the pump ids it has started a worker for (or the
\* pump id it was given), rates the dict of rates (or the keywords) it was given
CtlIdle ==
    [pc |-> "idle", op |-> "none", results |-> [k \in {} |-> TRUE], asked |-> {},
     rates |-> [k \in {} |-> 0]]

\* HardwareSimulator.__init__, lines 553-563: no device yet
NewRegistry(simulate_errors) ==
    [pumps |-> [k \in {} |-> 0], atomizers |-> [k \in {} |-> 0],
     simulate_errors |-> simulate_errors]

\* the clock at construction; on_time is the time the atomizer has been ON since
\* the last reset_counters
NewClock == [now |-> 1, on_time |-> 0]

\* the loop between two passes: pc is the line it is at, vd the local
\* volume_dispensed, r the operand it has loaded
LoopTop == [pc |-> "top", vd |-> 0, r |-> 0]

\* no run_synchronized_sequence is going on
NoSeq ==
    [pc |-> "none", steps |-> <<>>, k |-> 0, wait |-> 0, slept |-> 0, stops |-> {},
     runs |-> 0]

(***************************************************************************)
(* The lifecycle specification: one pump, its loop, and one calling thread *)
(* (the controller gives each pump one task at a time and joins it).       *)
(***************************************************************************)
Init ==
    /\ \E se \in BOOLEAN : pump = NewPump(MaxVolume, se)
    /\ loops = [l \in LoopIds |-> "unborn"]
    /\ atom = NewAtomizer
    /\ th = [t \in Threads |-> Idle]
    /\ refills = 0
    /\ ev = Event("Init", "none", "none", 0, 0)
    /\ status = GetStatusOf(pump)
    /\ pairs = [last |-> <<pump.target_flow_rate, pump.amplitude>>, seen |-> {}]
    /\ aloop = "unborn"
    /\ fleet = NewFleet
    /\ floop = [i \in PumpIds |-> "unborn"]
    /\ task = [i \in PumpIds |-> NoTask]
    /\ ctl = CtlIdle
    /\ seq = NoSeq
    /\ reg = NewRegistry(pump.simulate_errors)
    /\ clk = NewClock
    /\ lt = LoopTop

Next ==
    \/ \E t \in Callers : StartCall(t)
    \/ \E t \in Callers : StartSet(t)
    \/ \E t \in Callers : StopCall(t)
    \/ \E t \in Callers : StopSignal(t)
    \/ \E t \in Callers : StopJoin(t)
    \/ \E t \in Callers : StopOff(t)
    \/ \E t \in Callers : StopZero(t)
    \/ \E t \in Callers, rate \in RunRates : SetFlowRate(t, rate)
    \/ \E t \in Callers, volume \in RefillVolumes : Refill(t, volume)
    \/ \E t \in Callers, volume \in RunVolumes, rate \in RunRates \cup {NoRate} :
          DispenseCall(t, volume, rate)
    \/ \E t \in Callers : DispenseTime(t)
    \/ \E t \in Callers : DispenseUpdate(t)
    \/ \E t \in Callers : DispenseStop(t)
    \/ \E l \in LoopIds, elapsed \in 0..MaxElapsed,
          d \in {-PressureJitter, 0, PressureJitter}, fault \in BOOLEAN :
          LoopTick(l, elapsed, d, fault)
    \/ \E l \in LoopIds : LoopExit(l)

Spec == Init /\ [][Next]_vars

\* The loop and the caller are threads of the interpreter, which runs each of
\* them again and again: a pass of the loop follows the sleep of line 346 (so
\* its elapsed time is positive), the loop leaves the while of line 305 once
\* self.running is false, and a call that has begun goes on to its next line.
\* Nothing makes the caller begin a call.
Fairness ==
    /\ WF_vars(\E l \in LoopIds, elapsed \in 1..MaxElapsed,
                  d \in {-PressureJitter, 0, PressureJitter}, fault \in BOOLEAN :
                  LoopTick(l, elapsed, d, fault))
    /\ WF_vars(\E l \in LoopIds : LoopExit(l))
    /\ WF_vars(\E t \in Callers :
                  \/ StartSet(t)
                  \/ StopSignal(t)
                  \/ StopJoin(t)
                  \/ StopOff(t)
                  \/ StopZero(t)
                  \/ DispenseTime(t)
                  \/ DispenseUpdate(t)
                  \/ DispenseStop(t))

SpecFair == Spec /\ Fairness

(***************************************************************************)
(* The setpoint specification: every setter of the pump and of the         *)
(* atomizer, called in any order with values in and out of range, over the *)
(* whole range of flow rates.                                              *)
(***************************************************************************)
SetRates == {-FlowScale, 0, 4 * FlowScale, MaxFlowRate, MaxFlowRate + FlowScale}
SetFrequencies == {24, 25, 100, 150, 800, 801}
SetAmplitudes == {-1, 0, 50, 100, 101}
SetModes == {"analog", "digital", "frequency", "pulse"}
SetLevels == {-1, 0, 50, 100, 101}
SetAtomFrequencies == {107, 108, 120, 121}

NextSet ==
    \/ \E rate \in SetRates : SetFlowRate("ctl", rate)
    \/ \E frequency \in SetFrequencies : SetFrequency("ctl", frequency)
    \/ \E amplitude_percent \in SetAmplitudes : SetAmplitude("ctl", amplitude_percent)
    \/ \E mode \in SetModes : SetMode("ctl", mode)
    \/ \E volume \in RefillVolumes : Refill("ctl", volume)
    \/ \E level \in SetLevels : AtomSetPowerLevel(level)
    \/ \E frequency \in SetAtomFrequencies : AtomSetFrequency(frequency)

SpecSet == Init /\ [][NextSet]_vars

\* The divisions of FrequencyFactor, Rescaled and FlowForAmplitude leave no
\* remainder on any value the setpoint specification reaches: the integers are
\* the program's real numbers, not roundings of them.
FrequencyRescaleExact ==
    /\ \A f \in {g \in SetFrequencies : FrequencyValid(g)} :
          /\ f < 100 => (500 * f) % 100 = 0
          /\ f > 150 => (500 * Min(650, f - 150)) % 650 = 0
          /\ (pump.target_flow_rate * FrequencyFactor(f)) % FrequencyFactor(pump.frequency) = 0
    /\ \A a \in {b \in SetAmplitudes : AmplitudeValid(b)} :
          (a * MaxFlowRate * FrequencyFactor(pump.frequency)) % (100 * 1000) = 0
    /\ \A l \in {k \in SetLevels : PowerLevelValid(k)} : (l * 30 * 10) % 100 = 0

(***************************************************************************)
(* The reading specification: one thread calls set_flow_rate and           *)
(* set_amplitude while another calls get_status.  The class has no lock,   *)
(* so each assignment of a setter and each group of reads of get_status    *)
(* is a step of its own.  pairs.last is the (target_flow_rate, amplitude)  *)
(* pair the last completed setter left, pairs.seen the pairs the pump had  *)
(* between setter calls since the running get_status began.                *)
(***************************************************************************)
ReadRates == {0, 7 * FlowScale, MaxFlowRate, MaxFlowRate + 1}
ReadAmplitudes == {0, 25, 100, 101}

PairOf(p) == <<p.target_flow_rate, p.amplitude>>

SetterDone(p) == [last |-> PairOf(p), seen |-> pairs.seen \cup {PairOf(p)}]

\* set_flow_rate, lines 110-114
SetFlowRateTarget(t, rate) ==
    /\ th[t].pc = "idle"
    /\ IF FlowRateValid(rate)
         THEN /\ pump' = [pump EXCEPT !.target_flow_rate = rate]
              /\ th' = [th EXCEPT ![t] = [Idle EXCEPT !.pc = "sf_amp",
                                                      !.op = "set_flow_rate",
                                                      !.arg = rate]]
              /\ ev' = Event("SetFlowRateTarget", "set_flow_rate", "none", rate, 0)
         ELSE /\ pump' = pump
              /\ th' = th
              /\ ev' = Event("SetFlowRateTarget", "set_flow_rate", "fail", rate, 0)
    /\ UNCHANGED <<loops, atom, refills, status, pairs, aloop, fvars, rvars>>

\* set_flow_rate, lines 118-124
SetFlowRateAmplitude(t) ==
    /\ th[t].pc = "sf_amp"
    /\ pump' = [pump EXCEPT !.amplitude = AmplitudeFor(th[t].arg)]
    /\ th' = [th EXCEPT ![t] = Idle]
    /\ pairs' = SetterDone(pump')
    /\ ev' = Event("SetFlowRateAmplitude", "set_flow_rate", "ok", th[t].arg, 0)
    /\ UNCHANGED <<loops, atom, refills, status, aloop, fvars, rvars>>

\* set_amplitude, lines 180-185
SetAmplitudeStore(t, amplitude_percent) ==
    /\ th[t].pc = "idle"
    /\ IF AmplitudeValid(amplitude_percent)
         THEN /\ pump' = [pump EXCEPT !.amplitude = amplitude_percent]
              /\ th' = [th EXCEPT ![t] = [Idle EXCEPT !.pc = "sa_flow",
                                                      !.op = "set_amplitude",
                                                      !.arg = amplitude_percent]]
              /\ ev' = Event("SetAmplitudeStore", "set_amplitude", "none", amplitude_percent, 0)
         ELSE /\ pump' = pump
              /\ th' = th
              /\ ev' = Event("SetAmplitudeStore", "set_amplitude", "fail", amplitude_percent, 0)
    /\ UNCHANGED <<loops, atom, refills, status, pairs, aloop, fvars, rvars>>

\* set_amplitude, lines 188-192
SetAmplitudeFlow(t) ==
    /\ th[t].pc = "sa_flow"
    /\ pump' = [pump EXCEPT !.target_flow_rate = FlowForAmplitude(th[t].arg, pump.frequency)]
    /\ th' = [th EXCEPT ![t] = Idle]
    /\ pairs' = SetterDone(pump')
    /\ ev' = Event("SetAmplitudeFlow", "set_amplitude", "ok", th[t].arg, 0)
    /\ UNCHANGED <<loops, atom, refills, status, aloop, fvars, rvars>>

\* get_status, lines 286-290: the reads up to target_flow_rate
GetStatusHead(t) ==
    /\ th[t].pc = "idle"
    /\ status' = [status EXCEPT !.state = pump.state,
                                !.flow_rate = pump.flow_rate,
                                !.target_flow_rate = pump.target_flow_rate]
    /\ pairs' = [pairs EXCEPT !.seen = {pairs.last}]
    /\ th' = [th EXCEPT ![t] = [Idle EXCEPT !.pc = "gs_tail", !.op = "get_status"]]
    /\ ev' = Event("GetStatusHead", "get_status", "none", 0, 0)
    /\ UNCHANGED <<pump, loops, atom, refills, aloop, fvars, rvars>>

\* get_status, lines 291-298: the reads from volume_remaining on, and the return
GetStatusTail(t) ==
    /\ th[t].pc = "gs_tail"
    /\ status' = [GetStatusOf(pump) EXCEPT !.state = status.state,
                                           !.flow_rate = status.flow_rate,
                                           !.target_flow_rate = status.target_flow_rate]
    /\ th' = [th EXCEPT ![t] = Idle]
    /\ ev' = Event("GetStatusTail", "get_status", "ok", 0, 0)
    /\ UNCHANGED <<pump, loops, atom, refills, pairs, aloop, fvars, rvars>>

NextRead ==
    \/ \E rate \in ReadRates : SetFlowRateTarget("ctl", rate)
    \/ SetFlowRateAmplitude("ctl")
    \/ \E amplitude_percent \in ReadAmplitudes : SetAmplitudeStore("ctl", amplitude_percent)
    \/ SetAmplitudeFlow("ctl")
    \/ GetStatusHead("task")
    \/ GetStatusTail("task")

SpecRead == Init /\ [][NextRead]_vars

(***************************************************************************)
(* The controller specification: a MultiPumpController with the pumps of   *)
(* PumpIds.  The controller's thread calls start_all_pumps,                *)
(* stop_all_pumps, set_flow_rates and dispense_volumes; each fan-out       *)
(* starts one worker thread per pump and joins them, so a pump is touched  *)
(* by one worker and by its own loop only.  Steps of a pump's method       *)
(* between which neither of the two can act are one step here.             *)
(***************************************************************************)
\* what the controller and its pumps leave alone
pvars == <<pump, loops, atom, th, refills, status, pairs, aloop, rvars>>

\* Inputs: dicts over P1 alone, over both pumps, and one that names a pump the
\* controller does not manage.
FleetRates == {0, 8, MaxFlowRate + 1}
FleetVolumes == {0, 16}
FlowRateMaps ==
    UNION {[S -> FleetRates] : S \in {{}, {"P1"}}} \cup {[i \in {"P2", UnknownId} |-> 8]}
VolumeMaps ==
    UNION {[S -> FleetVolumes] : S \in {{"P1"}, PumpIds}} \cup {[i \in {"P2", UnknownId} |-> 16]}
DispenseRateMaps ==
    UNION {[S -> {0, 8}] : S \in {{}, {"P1"}}} \cup {[i \in PumpIds |-> 8]}

NoResults == [k \in {} |-> TRUE]

\* results[pump_id] = success
Put(results, pump_id, success) ==
    [k \in DOMAIN results \cup {pump_id} |-> IF k = pump_id THEN success ELSE results[k]]

FleetEvent(step, op, ret, pump_id) == EventS(step, op, ret, pump_id)

Ret(success) == IF success THEN "ok" ELSE "fail"

\* start, lines 73-81, on a pump record
Started(p) == [p EXCEPT !.state = "ON", !.running = TRUE, !.thread = 1]

\* _simulate_running of a pump of the controller: one pass, one update_interval
\* after the pass before; simulate_errors is off
FleetTick(i) ==
    /\ floop[i] = "run"
    /\ fleet[i].running
    /\ fleet' = [fleet EXCEPT ![i] = TickOf(fleet[i], 1, 0, FALSE)]
    /\ floop' = [floop EXCEPT ![i] = IF fleet'[i].running THEN "run" ELSE "done"]
    /\ ev' = FleetEvent("FleetTick", "_simulate_running", "none", i)
    /\ UNCHANGED <<task, ctl, pvars, seq>>

\* lines 305 and 348-350
FleetLoopExit(i) ==
    /\ floop[i] = "run"
    /\ ~fleet[i].running
    /\ fleet' = IF fleet[i].state # "ERROR" THEN [fleet EXCEPT ![i].flow_rate = 0] ELSE fleet
    /\ floop' = [floop EXCEPT ![i] = "done"]
    /\ ev' = FleetEvent("FleetLoopExit", "_simulate_running", "none", i)
    /\ UNCHANGED <<task, ctl, pvars, seq>>

\* _start_pump, lines 83-87, with start, lines 71-84
TaskStart(i) ==
    /\ task[i].pc = "start"
    /\ LET success == fleet[i].state = "OFF" IN
       /\ fleet' = IF success THEN [fleet EXCEPT ![i] = Started(@)] ELSE fleet
       /\ floop' = IF success THEN [floop EXCEPT ![i] = "run"] ELSE floop
       /\ ctl' = [ctl EXCEPT !.results = Put(@, i, success)]
       /\ ev' = FleetEvent("TaskStart", "start", Ret(success), i)
    /\ task' = [task EXCEPT ![i].pc = "done"]
    /\ UNCHANGED <<pvars, seq>>

\* _stop_pump, lines 113-117: the test of stop, line 88, and when it fails the
\* return of False.  run_synchronized_sequence calls stop in the controller's
\* own thread (line 312, op "seq_stop") and drops what it returns.
TaskStop(i) ==
    /\ task[i].pc = "stop"
    /\ IF fleet[i].state = "ON"
         THEN /\ task' = [task EXCEPT ![i].pc = "stop_sig"]
              /\ ctl' = ctl
              /\ ev' = FleetEvent("TaskStop", "stop", "none", i)
         ELSE /\ task' = [task EXCEPT ![i].pc = "done"]
              /\ ctl' = IF task[i].op = "seq_stop"
                          THEN ctl ELSE [ctl EXCEPT !.results = Put(@, i, FALSE)]
              /\ ev' = FleetEvent("TaskStop", "stop", "fail", i)
    /\ UNCHANGED <<fleet, floop, pvars, seq>>

\* stop, line 89
TaskStopSignal(i) ==
    /\ task[i].pc = "stop_sig"
    /\ fleet' = [fleet EXCEPT ![i].running = FALSE]
    /\ task' = [task EXCEPT ![i].pc = "stop_join"]
    /\ ev' = FleetEvent("TaskStopSignal", task[i].op, "none", i)
    /\ UNCHANGED <<floop, ctl, pvars, seq>>

\* stop, lines 90-95, once the loop has ended, and the True that stop (line 117)
\* or dispense_volume (lines 259, 219) returns into results
TaskStopFinish(i) ==
    /\ task[i].pc = "stop_join"
    /\ floop[i] # "run"
    /\ fleet' = [fleet EXCEPT ![i].state = "OFF", ![i].flow_rate = 0]
    /\ task' = [task EXCEPT ![i].pc = "done"]
    /\ ctl' = IF task[i].op = "seq_stop"
                THEN ctl ELSE [ctl EXCEPT !.results = Put(@, i, TRUE)]
    /\ ev' = FleetEvent("TaskStopFinish", task[i].op, "ok", i)
    /\ UNCHANGED <<floop, pvars, seq>>

\* _dispense_volume, lines 215-218, with dispense_volume, lines 226-241
TaskDispenseCall(i) ==
    /\ task[i].pc = "d_call"
    /\ IF DispenseRejects(fleet[i], task[i].volume, task[i].arg)
         THEN /\ fleet' = fleet
              /\ floop' = floop
              /\ task' = [task EXCEPT ![i].pc = "done"]
              /\ ctl' = [ctl EXCEPT !.results = Put(@, i, FALSE)]
              /\ ev' = FleetEvent("TaskDispenseCall", "dispense_volume", "fail", i)
         ELSE LET p1 == IF task[i].arg # NoRate
                          THEN WithFlowRate(fleet[i], task[i].arg) ELSE fleet[i]
                  was_off == p1.state = "OFF"
              IN  /\ fleet' = [fleet EXCEPT ![i] = IF was_off THEN Started(p1) ELSE p1]
                  /\ floop' = IF was_off THEN [floop EXCEPT ![i] = "run"] ELSE floop
                  /\ task' = [task EXCEPT ![i].pc = "d_time", ![i].was_off = was_off]
                  /\ ctl' = ctl
                  /\ ev' = FleetEvent("TaskDispenseCall", "dispense_volume", "none", i)
    /\ UNCHANGED <<pvars, seq>>

\* dispense_volume, lines 243-248: the division raises when the target is 0; the
\* exception ends the worker thread before line 219
TaskDispenseTime(i) ==
    /\ task[i].pc = "d_time"
    /\ IF fleet[i].target_flow_rate = 0
         THEN /\ task' = [task EXCEPT ![i].pc = "dead"]
              /\ ev' = FleetEvent("TaskDispenseTime", "dispense_volume", "raised", i)
         ELSE /\ task' = [task EXCEPT ![i].pc = "d_sleep"]
              /\ ev' = FleetEvent("TaskDispenseTime", "dispense_volume", "none", i)
    /\ UNCHANGED <<fleet, floop, ctl, pvars, seq>>

\* dispense_volume, lines 250-252, and lines 258-259, 219 when the pump was not off
TaskDispenseUpdate(i) ==
    /\ task[i].pc = "d_sleep"
    /\ fleet' = [fleet EXCEPT ![i].total_volume_dispensed = @ + task[i].volume,
                              ![i].volume_remaining = @ - task[i].volume]
    /\ IF task[i].was_off
         THEN /\ task' = [task EXCEPT ![i].pc = "d_stop"]
              /\ ctl' = ctl
              /\ ev' = FleetEvent("TaskDispenseUpdate", "dispense_volume", "none", i)
         ELSE /\ task' = [task EXCEPT ![i].pc = "done"]
              /\ ctl' = [ctl EXCEPT !.results = Put(@, i, TRUE)]
              /\ ev' = FleetEvent("TaskDispenseUpdate", "dispense_volume", "ok", i)
    /\ UNCHANGED <<floop, pvars, seq>>

\* dispense_volume, lines 255-256: the test of stop, line 88
TaskDispenseStop(i) ==
    /\ task[i].pc = "d_stop"
    /\ IF fleet[i].state = "ON"
         THEN /\ task' = [task EXCEPT ![i].pc = "stop_sig"]
              /\ ctl' = ctl
              /\ ev' = FleetEvent("TaskDispenseStop", "dispense_volume", "none", i)
         ELSE /\ task' = [task EXCEPT ![i].pc = "done"]
              /\ ctl' = [ctl EXCEPT !.results = Put(@, i, TRUE)]
              /\ ev' = FleetEvent("TaskDispenseStop", "dispense_volume", "ok", i)
    /\ UNCHANGED <<fleet, floop, pvars, seq>>

\* set_flow_rate of every managed pump named in a dict of rates
WithFlowRates(f, rates_dict) ==
    [i \in PumpIds |->
        IF i \in DOMAIN rates_dict /\ FlowRateValid(rates_dict[i])
          THEN WithFlowRate(f[i], rates_dict[i])
          ELSE f[i]]

\* start_all_pumps, lines 58-74: the setpoints, then one worker per managed pump
StartAllPumps(flow_rates) ==
    /\ ctl.pc = "idle"
    /\ fleet' = WithFlowRates(fleet, flow_rates)
    /\ task' = [i \in PumpIds |-> [NoTask EXCEPT !.pc = "start", !.op = "start"]]
    /\ ctl' = [pc |-> "join", op |-> "start_all_pumps", results |-> NoResults,
               asked |-> PumpIds, rates |-> flow_rates]
    /\ ev' = Event("StartAllPumps", "start_all_pumps", "none", 0, 0)
    /\ UNCHANGED <<floop, pvars>>

\* stop_all_pumps, lines 96-104
StopAllPumps ==
    /\ ctl.pc = "idle"
    /\ task' = [i \in PumpIds |-> [NoTask EXCEPT !.pc = "stop", !.op = "stop"]]
    /\ ctl' = [pc |-> "join", op |-> "stop_all_pumps", results |-> NoResults,
               asked |-> PumpIds, rates |-> NoResults]
    /\ ev' = Event("StopAllPumps", "stop_all_pumps", "none", 0, 0)
    /\ UNCHANGED <<fleet, floop, pvars>>

\* set_flow_rates, lines 119-137
SetFlowRates(rates_dict) ==
    /\ ctl.pc = "idle"
    /\ fleet' = WithFlowRates(fleet, rates_dict)
    /\ ctl' = ctl
    /\ ev' = Event("SetFlowRates", "set_flow_rates", "ok", 0, 0)
    /\ UNCHANGED <<floop, task, pvars>>

\* dispense_volumes, lines 195-206: one worker per managed pump id of
\* volumes_dict; rates_dict.get(pump_id) is None for an id it does not hold
DispenseVolumes(volumes_dict, rates_dict) ==
    /\ ctl.pc = "idle"
    /\ task' = [i \in PumpIds |->
                  IF i \in DOMAIN volumes_dict
                    THEN [pc |-> "d_call", op |-> "dispense_volume",
                          volume |-> volumes_dict[i],
                          arg |-> IF i \in DOMAIN rates_dict THEN rates_dict[i] ELSE NoRate,
                          was_off |-> FALSE]
                    ELSE NoTask]
    /\ ctl' = [pc |-> "join", op |-> "dispense_volumes", results |-> NoResults,
               asked |-> DOMAIN volumes_dict \cap PumpIds, rates |-> rates_dict]
    /\ ev' = Event("DispenseVolumes", "dispense_volumes", "none", 0, 0)
    /\ UNCHANGED <<fleet, floop, pvars>>

\* as CtlJoin, returning without the joins
CtlJoinNoWait ==
    /\ ctl.pc = "join"
    /\ ctl' = CtlIdle
    /\ task' = [i \in PumpIds |-> NoTask]
    /\ ev' = Event("CtlJoin", ctl.op, "ok", 0, 0)
    /\ UNCHANGED <<fleet, floop, pvars, seq>>

\* lines 76-81, 106-111, 208-213: thread.join() of every worker, which returns
\* also for a worker that an exception has ended; then the return of results
CtlJoin ==
    /\ ctl.pc = "join"
    /\ \A i \in PumpIds : task[i].pc \in {"none", "done", "dead"}
    /\ ctl' = CtlIdle
    /\ task' = [i \in PumpIds |-> NoTask]
    /\ ev' = Event("CtlJoin", ctl.op, "ok", 0, 0)
    /\ UNCHANGED <<fleet, floop, pvars, seq>>

\* the steps of the pumps and of the workers
FleetStep ==
    \/ \E i \in PumpIds : FleetTick(i)
    \/ \E i \in PumpIds : FleetLoopExit(i)
    \/ \E i \in PumpIds : TaskStart(i)
    \/ \E i \in PumpIds : TaskStop(i)
    \/ \E i \in PumpIds : TaskStopSignal(i)
    \/ \E i \in PumpIds : TaskStopFinish(i)
    \/ \E i \in PumpIds : TaskDispenseCall(i)
    \/ \E i \in PumpIds : TaskDispenseTime(i)
    \/ \E i \in PumpIds : TaskDispenseUpdate(i)
    \/ \E i \in PumpIds : TaskDispenseStop(i)

NextCtl ==
    \/ \E flow_rates \in FlowRateMaps : StartAllPumps(flow_rates) /\ UNCHANGED seq
    \/ StopAllPumps /\ UNCHANGED seq
    \/ \E volumes_dict \in VolumeMaps, rates_dict \in DispenseRateMaps :
          DispenseVolumes(volumes_dict, rates_dict) /\ UNCHANGED seq
    \/ CtlJoin
    \/ FleetStep

\* MultiPumpController.__init__, line 27: HardwareSimulator(simulate_errors=False)
InitCtl == Init /\ ~pump.simulate_errors

SpecCtl == InitCtl /\ [][NextCtl]_vars

(***************************************************************************)
(* run_synchronized_sequence, lines 235-315.  A step is a record of its    *)
(* delay (in seconds) and of its 'pumps' dict, which gives a pump id one   *)
(* action: arg is the rate, frequency or amplitude, and for a dispense the *)
(* rate or NoRate.                                                         *)
(***************************************************************************)
MaxSteps == 3        \* steps of one sequence
MaxRuns == 1         \* calls of run_synchronized_sequence in one run

Op(action, arg, volume, mode) ==
    [action |-> action, arg |-> arg, volume |-> volume, mode |-> mode]

SeqSteps ==
    { [delay |-> 0, pumps |-> ("P1" :> Op("set_flow", 8, 0, "")) @@ ("P2" :> Op("start", 0, 0, ""))],
      [delay |-> 2, pumps |-> ("P1" :> Op("dispense", 8, 16, "")) @@ ("P2" :> Op("stop", 0, 0, ""))],
      [delay |-> 0, pumps |-> ("P1" :> Op("set_frequency", 25, 0, ""))
                              @@ ("P2" :> Op("set_flow", 8, 0, ""))
                              @@ (UnknownId :> Op("start", 0, 0, ""))],
      [delay |-> 1, pumps |-> ("P1" :> Op("start", 0, 0, "")) @@ ("P2" :> Op("dispense", NoRate, 16, ""))],
      [delay |-> 0, pumps |-> ("P1" :> Op("set_amplitude", 5, 0, "")) @@ ("P2" :> Op("set_mode", 0, 0, "analog"))],
      [delay |-> 1, pumps |-> ("P1" :> Op("stop", 0, 0, "")) @@ ("P2" :> Op("stop", 0, 0, ""))] }

Sequences == UNION {[1..n -> SeqSteps] : n \in 1..MaxSteps}

\* the setters on a pump record: the record they leave
AfterSetFrequency(p, frequency) ==
    IF FrequencyValid(frequency)
      THEN [p EXCEPT !.frequency = frequency,
                     !.target_flow_rate = Rescaled(@, frequency, p.frequency)]
      ELSE p

AfterSetAmplitude(p, amplitude_percent) ==
    IF AmplitudeValid(amplitude_percent)
      THEN [p EXCEPT !.amplitude = amplitude_percent,
                     !.target_flow_rate = FlowForAmplitude(amplitude_percent, p.frequency)]
      ELSE p

AfterSetMode(p, mode) == IF mode \in valid_modes THEN [p EXCEPT !.mode = mode] ELSE p

\* lines 266-293: the managed pumps of the step that have the action
OpsOf(pumps, action) == {i \in DOMAIN pumps \cap PumpIds : pumps[i].action = action}

\* lines 278-289: the setters the loop over step['pumps'] calls at once
Organised(f, pumps) ==
    [i \in PumpIds |->
        IF i \in OpsOf(pumps, "set_frequency") THEN AfterSetFrequency(f[i], pumps[i].arg)
        ELSE IF i \in OpsOf(pumps, "set_amplitude") THEN AfterSetAmplitude(f[i], pumps[i].arg)
        ELSE IF i \in OpsOf(pumps, "set_mode") THEN AfterSetMode(f[i], pumps[i].mode)
        ELSE f[i]]

CurrentStep == seq.steps[seq.k]

\* no worker of an earlier fan-out is alive and the controller's thread is in no
\* other call
CtlFree == ctl.pc = "idle" /\ \A i \in PumpIds : task[i].pc \in {"none", "done", "dead"}

\* line 249, first pass
RunSequence(sequence_steps) ==
    /\ ctl.pc = "idle"
    /\ seq.pc = "none"
    /\ seq.runs < MaxRuns
    /\ seq' = [pc |-> "delay", steps |-> sequence_steps, k |-> 1,
               wait |-> sequence_steps[1].delay, slept |-> 0, stops |-> {},
               runs |-> seq.runs + 1]
    /\ ev' = Event("RunSequence", "run_synchronized_sequence", "none", 0, 0)
    /\ UNCHANGED <<fleet, floop, task, ctl, pvars>>

\* lines 251-253: time.sleep(step['delay']), one second of it
SeqSleep ==
    /\ seq.pc = "delay"
    /\ seq.wait > 0
    /\ seq' = [seq EXCEPT !.wait = @ - 1, !.slept = @ + 1]
    /\ ev' = Event("SeqSleep", "run_synchronized_sequence", "none", 0, 0)
    /\ UNCHANGED <<fleet, floop, task, ctl, pvars>>

\* as SeqOrganise, not waiting for the end of the delay
SeqOrganiseAtOnce ==
    /\ seq.pc = "delay"
    /\ fleet' = Organised(fleet, CurrentStep.pumps)
    /\ seq' = [seq EXCEPT !.pc = "flow", !.stops = OpsOf(CurrentStep.pumps, "stop")]
    /\ ev' = Event("SeqOrganise", "run_synchronized_sequence", "none", 0, 0)
    /\ UNCHANGED <<floop, task, ctl, pvars>>

\* lines 257-293, after the sleep
SeqOrganise ==
    /\ seq.pc = "delay"
    /\ seq.wait = 0
    /\ fleet' = Organised(fleet, CurrentStep.pumps)
    /\ seq' = [seq EXCEPT !.pc = "flow", !.stops = OpsOf(CurrentStep.pumps, "stop")]
    /\ ev' = Event("SeqOrganise", "run_synchronized_sequence", "none", 0, 0)
    /\ UNCHANGED <<floop, task, ctl, pvars>>

\* lines 297-298
SeqFlow ==
    /\ seq.pc = "flow"
    /\ LET flow_ops == [i \in OpsOf(CurrentStep.pumps, "set_flow") |-> CurrentStep.pumps[i].arg]
       IN  IF DOMAIN flow_ops # {}
             THEN SetFlowRates(flow_ops)
             ELSE /\ ev' = Event("SeqFlow", "run_synchronized_sequence", "none", 0, 0)
                  /\ UNCHANGED <<fleet, floop, task, ctl, pvars>>
    /\ seq' = [seq EXCEPT !.pc = "start"]

\* lines 301-303
SeqStart ==
    /\ seq.pc = "start"
    /\ LET start_ops == OpsOf(CurrentStep.pumps, "start")
       IN  IF start_ops # {}
             THEN StartAllPumps([i \in start_ops |-> fleet[i].target_flow_rate])
             ELSE /\ ev' = Event("SeqStart", "run_synchronized_sequence", "none", 0, 0)
                  /\ UNCHANGED <<fleet, floop, task, ctl, pvars>>
    /\ seq' = [seq EXCEPT !.pc = "dispense"]

\* lines 306-307: dispense_rates holds the rates of the dispenses that name one
SeqDispense ==
    /\ seq.pc = "dispense"
    /\ ctl.pc = "idle"
    /\ LET dispense_ops == [i \in OpsOf(CurrentStep.pumps, "dispense") |-> CurrentStep.pumps[i].volume]
           dispense_rates == [i \in {k \in DOMAIN dispense_ops : CurrentStep.pumps[k].arg # NoRate}
                                |-> CurrentStep.pumps[i].arg]
       IN  IF DOMAIN dispense_ops # {}
             THEN DispenseVolumes(dispense_ops, dispense_rates)
             ELSE /\ ev' = Event("SeqDispense", "run_synchronized_sequence", "none", 0, 0)
                  /\ UNCHANGED <<fleet, floop, task, ctl, pvars>>
    /\ seq' = [seq EXCEPT !.pc = "stop"]

\* as SeqStop, not waiting for the workers of the dispenses
SeqStopAtOnce(i) ==
    /\ seq.pc = "stop"
    /\ i \in seq.stops
    /\ task' = [task EXCEPT ![i] = [NoTask EXCEPT !.pc = "stop", !.op = "seq_stop"]]
    /\ seq' = [seq EXCEPT !.stops = @ \ {i}]
    /\ ev' = FleetEvent("SeqStop", "run_synchronized_sequence", "none", i)
    /\ UNCHANGED <<fleet, floop, ctl, pvars>>

\* lines 310-312: the next stop of the step, in the controller's own thread,
\* once the stop before it has returned
SeqStop(i) ==
    /\ seq.pc = "stop"
    /\ CtlFree
    /\ i \in seq.stops
    /\ task' = [k \in PumpIds |-> IF k = i THEN [NoTask EXCEPT !.pc = "stop", !.op = "seq_stop"]
                                            ELSE NoTask]
    /\ seq' = [seq EXCEPT !.stops = @ \ {i}]
    /\ ev' = FleetEvent("SeqStop", "run_synchronized_sequence", "none", i)
    /\ UNCHANGED <<fleet, floop, ctl, pvars>>

\* line 249, next pass, or lines 314-315
SeqEndStep ==
    /\ seq.pc = "stop"
    /\ CtlFree
    /\ seq.stops = {}
    /\ task' = [k \in PumpIds |-> NoTask]
    /\ IF seq.k < Len(seq.steps)
         THEN /\ seq' = [seq EXCEPT !.pc = "delay", !.k = @ + 1,
                                    !.wait = seq.steps[seq.k + 1].delay,
                                    !.slept = 0]
              /\ ev' = Event("SeqEndStep", "run_synchronized_sequence", "none", 0, 0)
         ELSE /\ seq' = [NoSeq EXCEPT !.runs = seq.runs]
              /\ ev' = Event("SeqEndStep", "run_synchronized_sequence", "ok", 0, 0)
    /\ UNCHANGED <<fleet, floop, ctl, pvars>>

NextSeq ==
    \/ \E sequence_steps \in Sequences : RunSequence(sequence_steps)
    \/ SeqSleep
    \/ SeqOrganise
    \/ SeqFlow
    \/ SeqStart
    \/ SeqDispense
    \/ \E i \in PumpIds : SeqStop(i)
    \/ SeqEndStep
    \/ CtlJoin
    \/ FleetStep

SpecSeq == InitCtl /\ [][NextSeq]_vars

(***************************************************************************)
(* set_pump_parameters, lines 139-182.  params.has holds the keywords the  *)
(* call was given; the pump's loop can run between two of its setters.     *)
(***************************************************************************)
ParamSets ==
    [has : SUBSET {"frequency", "amplitude", "mode", "flow_rate"},
     frequency : {25, 801}, amplitude : {5, 101}, mode : {"digital", "pulse"},
     flow_rate : {8, MaxFlowRate + 1}]

\* results[key] = success, and results['success'] = False after a failure
FieldResult(results, key, success) ==
    Put(IF success THEN results ELSE Put(results, "success", FALSE), key, success)

\* lines 150-155
SetParamsCall(pump_id, params) ==
    /\ ctl.pc = "idle"
    /\ seq.pc = "none"
    /\ IF pump_id \notin PumpIds
         THEN /\ ctl' = ctl
              /\ ev' = FleetEvent("SetParamsCall", "set_pump_parameters", "fail", pump_id)
         ELSE /\ ctl' = [pc |-> "sp_frequency", op |-> "set_pump_parameters",
                         results |-> [k \in {"success"} |-> TRUE],
                         asked |-> {pump_id}, rates |-> params]
              /\ ev' = FleetEvent("SetParamsCall", "set_pump_parameters", "none", pump_id)
    /\ UNCHANGED <<fleet, floop, task, seq, pvars>>

\* the pump of the call that is going on
ParamsPump == CHOOSE i \in PumpIds : i \in ctl.asked

\* lines 157-161
SetParamsFrequency ==
    /\ ctl.pc = "sp_frequency"
    /\ IF "frequency" \in ctl.rates.has
         THEN /\ fleet' = [fleet EXCEPT ![ParamsPump] = AfterSetFrequency(@, ctl.rates.frequency)]
              /\ ctl' = [ctl EXCEPT !.pc = "sp_amplitude",
                                    !.results = FieldResult(@, "frequency",
                                                    FrequencyValid(ctl.rates.frequency))]
         ELSE /\ fleet' = fleet
              /\ ctl' = [ctl EXCEPT !.pc = "sp_amplitude"]
    /\ ev' = FleetEvent("SetParamsFrequency", "set_pump_parameters", "none", ParamsPump)
    /\ UNCHANGED <<floop, task, seq, pvars>>

\* lines 163-167
SetParamsAmplitude ==
    /\ ctl.pc = "sp_amplitude"
    /\ IF "amplitude" \in ctl.rates.has
         THEN /\ fleet' = [fleet EXCEPT ![ParamsPump] = AfterSetAmplitude(@, ctl.rates.amplitude)]
              /\ ctl' = [ctl EXCEPT !.pc = "sp_mode",
                                    !.results = FieldResult(@, "amplitude",
                                                    AmplitudeValid(ctl.rates.amplitude))]
         ELSE /\ fleet' = fleet
              /\ ctl' = [ctl EXCEPT !.pc = "sp_mode"]
    /\ ev' = FleetEvent("SetParamsAmplitude", "set_pump_parameters", "none", ParamsPump)
    /\ UNCHANGED <<floop, task, seq, pvars>>

\* as SetParamsMode, skipping the setter once a field has failed
SetParamsModeUnlessFailed ==
    /\ ctl.pc = "sp_mode"
    /\ IF "mode" \in ctl.rates.has /\ ctl.results["success"]
         THEN /\ fleet' = [fleet EXCEPT ![ParamsPump] = AfterSetMode(@, ctl.rates.mode)]
              /\ ctl' = [ctl EXCEPT !.pc = "sp_flow_rate",
                                    !.results = FieldResult(@, "mode",
                                                    ctl.rates.mode \in valid_modes)]
         ELSE /\ fleet' = fleet
              /\ ctl' = [ctl EXCEPT !.pc = "sp_flow_rate"]
    /\ ev' = FleetEvent("SetParamsMode", "set_pump_parameters", "none", ParamsPump)
    /\ UNCHANGED <<floop, task, seq, pvars>>

\* lines 169-173
SetParamsMode ==
    /\ ctl.pc = "sp_mode"
    /\ IF "mode" \in ctl.rates.has
         THEN /\ fleet' = [fleet EXCEPT ![ParamsPump] = AfterSetMode(@, ctl.rates.mode)]
              /\ ctl' = [ctl EXCEPT !.pc = "sp_flow_rate",
                                    !.results = FieldResult(@, "mode",
                                                    ctl.rates.mode \in valid_modes)]
         ELSE /\ fleet' = fleet
              /\ ctl' = [ctl EXCEPT !.pc = "sp_flow_rate"]
    /\ ev' = FleetEvent("SetParamsMode", "set_pump_parameters", "none", ParamsPump)
    /\ UNCHANGED <<floop, task, seq, pvars>>

\* lines 175-179: the last setter; ctl.pc "sp_return" is line 182, where results
\* is complete
SetParamsFlowRate ==
    /\ ctl.pc = "sp_flow_rate"
    /\ IF "flow_rate" \in ctl.rates.has
         THEN /\ fleet' = [fleet EXCEPT ![ParamsPump] =
                              IF FlowRateValid(ctl.rates.flow_rate)
                                THEN WithFlowRate(@, ctl.rates.flow_rate) ELSE @]
              /\ ctl' = [ctl EXCEPT !.pc = "sp_return",
                                    !.results = FieldResult(@, "flow_rate",
                                                    FlowRateValid(ctl.rates.flow_rate))]
         ELSE /\ fleet' = fleet
              /\ ctl' = [ctl EXCEPT !.pc = "sp_return"]
    /\ ev' = FleetEvent("SetParamsFlowRate", "set_pump_parameters", "none", ParamsPump)
    /\ UNCHANGED <<floop, task, seq, pvars>>

\* lines 181-182
SetParamsReturn ==
    /\ ctl.pc = "sp_return"
    /\ ctl' = CtlIdle
    /\ ev' = FleetEvent("SetParamsReturn", "set_pump_parameters",
                        Ret(ctl.results["success"]), ParamsPump)
    /\ UNCHANGED <<fleet, floop, task, seq, pvars>>

NextParams ==
    \/ \E pump_id \in {"P1", UnknownId}, params \in ParamSets :
          SetParamsCall(pump_id, params)
    \/ SetParamsFrequency
    \/ SetParamsAmplitude
    \/ SetParamsMode
    \/ SetParamsFlowRate
    \/ SetParamsReturn
    \/ StartAllPumps([i \in {"P1"} |-> 8]) /\ UNCHANGED seq
    \/ \E i \in PumpIds : TaskStart(i)
    \/ CtlJoin
    \/ \E i \in PumpIds : FleetTick(i)

SpecParams == InitCtl /\ [][NextParams]_vars

(***************************************************************************)
(* HardwareSimulator with one pump and one atomizer, both built with the   *)
(* simulate_errors flag of the simulator (lines 571 and 584): the          *)
(* atomizer's start, stop and loop, and shutdown, lines 617-627.           *)
(***************************************************************************)
MaxOperationTime == 3   \* the atomizer starts while its operation_time is below this
MaxAtomized == 30000    \* the atomizer's loop is followed while volume_atomized is below this
MaxTime == 4            \* the clock is followed up to this time

\* update_interval of time goes by
TimePasses ==
    /\ clk.now < MaxTime
    /\ clk' = [now |-> clk.now + 1,
               on_time |-> clk.on_time + (IF atom.state = "ON" THEN 1 ELSE 0)]
    /\ ev' = Event("TimePasses", "time", "none", 0, 0)
    /\ UNCHANGED <<pump, loops, atom, th, refills, status, pairs, aloop, fvars, reg, lt>>

\* UltrasonicAtomizerSimulator.start, lines 396-414; the caller is free again
\* at once, the sleep of line 407 is left out
AtomStart(t) ==
    /\ th[t].pc = "idle"
    /\ atom.state = "OFF" => atom.operation_time < MaxOperationTime
    /\ IF atom.state = "OFF"
         THEN /\ atom' = [atom EXCEPT !.state = "ON", !.running = TRUE,
                                      !.last_start_time = clk.now]
              /\ aloop' = "run"
              /\ ev' = Event("AtomStart", "atomizer.start", "ok", 0, 0)
         ELSE /\ UNCHANGED <<atom, aloop>>
              /\ ev' = Event("AtomStart", "atomizer.start", "fail", 0, 0)
    /\ UNCHANGED <<pump, loops, th, refills, status, pairs, fvars, rvars>>

\* UltrasonicAtomizerSimulator._simulate_running, lines 524-543: one pass, one
\* update_interval after the pass before; u is random.uniform(0.95, 1.05) in
\* percent, fault the outcome of random.random() < 0.0005
AtomTick(u, fault) ==
    /\ aloop = "run"
    /\ atom.running
    /\ atom.volume_atomized < MaxAtomized
    /\ IF pump.simulate_errors /\ fault
         THEN /\ atom' = [atom EXCEPT !.volume_atomized = @ + atom.atomization_rate * u,
                                      !.state = "ERROR", !.running = FALSE]
              /\ aloop' = "done"
         ELSE /\ atom' = [atom EXCEPT !.volume_atomized = @ + atom.atomization_rate * u]
              /\ aloop' = "run"
    /\ ev' = Event("AtomTick", "atomizer._simulate_running", "none", u, 0)
    /\ UNCHANGED <<pump, loops, th, refills, status, pairs, fvars, rvars>>

\* line 524: the loop sees self.running false and ends
AtomLoopExit ==
    /\ aloop = "run"
    /\ ~atom.running
    /\ aloop' = "done"
    /\ ev' = Event("AtomLoopExit", "atomizer._simulate_running", "none", 0, 0)
    /\ UNCHANGED <<pump, loops, atom, th, refills, status, pairs, fvars, rvars>>

\* lines 619-620: the test of the pump's state
ShutdownCall(t) ==
    /\ th[t].pc = "idle"
    /\ th' = [th EXCEPT ![t] =
                [Idle EXCEPT !.pc = IF pump.state = "ON" THEN "sh_stop" ELSE "sh_atomizer",
                             !.op = "shutdown",
                             !.snap = <<pump, atom>>]]
    /\ ev' = Event("ShutdownCall", "shutdown", "none", 0, 0)
    /\ UNCHANGED <<pump, loops, atom, refills, ext>>

\* line 621: pump.stop() and its own test of the state, line 88
ShutdownStop(t) ==
    /\ th[t].pc = "sh_stop"
    /\ th' = [th EXCEPT ![t].pc = IF pump.state = "ON" THEN "stop_sig" ELSE "sh_atomizer"]
    /\ ev' = Event("ShutdownStop", "shutdown", "none", 0, 0)
    /\ UNCHANGED <<pump, loops, atom, refills, ext>>

\* lines 623-624: the test of the atomizer's state
ShutdownAtomizer(t) ==
    /\ th[t].pc = "sh_atomizer"
    /\ th' = [th EXCEPT ![t].pc = IF atom.state = "ON" THEN "a_stop" ELSE "sh_return"]
    /\ ev' = Event("ShutdownAtomizer", "shutdown", "none", 0, 0)
    /\ UNCHANGED <<pump, loops, atom, refills, ext>>

\* atomizer.stop() called by itself
AtomStop(t) ==
    /\ th[t].pc = "idle"
    /\ th' = [th EXCEPT ![t] = [Idle EXCEPT !.pc = "a_stop", !.op = "atomizer.stop"]]
    /\ ev' = Event("AtomStop", "atomizer.stop", "none", 0, 0)
    /\ UNCHANGED <<pump, loops, atom, refills, ext>>

\* atomizer.stop(), lines 418-419 (and 432-433), called by itself or at line 625
AtomStopCall(t) ==
    /\ th[t].pc = "a_stop"
    /\ IF atom.state = "ON"
         THEN /\ atom' = [atom EXCEPT !.running = FALSE]
              /\ th' = [th EXCEPT ![t].pc = "a_join"]
              /\ ev' = Event("AtomStopCall", th[t].op, "none", 0, 0)
         ELSE /\ atom' = atom
              /\ IF th[t].op = "shutdown"
                   THEN /\ th' = [th EXCEPT ![t].pc = "sh_return"]
                        /\ ev' = Event("AtomStopCall", "shutdown", "none", 0, 0)
                   ELSE /\ th' = [th EXCEPT ![t] = Idle]
                        /\ ev' = Event("AtomStopCall", "atomizer.stop", "fail", 0, 0)
    /\ UNCHANGED <<pump, loops, refills, ext>>

\* as AtomStopJoin, without waiting for the thread
AtomStopNoJoin(t) ==
    /\ th[t].pc = "a_join"
    /\ th' = [th EXCEPT ![t].pc = "a_off"]
    /\ ev' = Event("AtomStopJoin", th[t].op, "none", 0, 0)
    /\ UNCHANGED <<pump, loops, atom, refills, ext>>

\* lines 420-421: join returns once the atomizer's thread has ended; the loop
\* tests self.running every 0.1 s, well inside the timeout of 1.0 s
AtomStopJoin(t) ==
    /\ th[t].pc = "a_join"
    /\ aloop # "run"
    /\ th' = [th EXCEPT ![t].pc = "a_off"]
    /\ ev' = Event("AtomStopJoin", th[t].op, "none", 0, 0)
    /\ UNCHANGED <<pump, loops, atom, refills, ext>>

\* lines 424-431; a1 is time.time() - self.last_start_time
AtomStopOff(t) ==
    /\ th[t].pc = "a_off"
    /\ atom' = [atom EXCEPT !.operation_time =
                                IF atom.last_start_time # 0
                                  THEN @ + (clk.now - atom.last_start_time) ELSE @,
                            !.last_start_time = 0,
                            !.state = "OFF"]
    /\ IF th[t].op = "shutdown"
         THEN /\ th' = [th EXCEPT ![t].pc = "sh_return"]
              /\ ev' = Event("AtomStopOff", "shutdown", "none",
                             clk.now - atom.last_start_time, 0)
         ELSE /\ th' = [th EXCEPT ![t] = Idle]
              /\ ev' = Event("AtomStopOff", "atomizer.stop", "ok",
                             clk.now - atom.last_start_time, 0)
    /\ UNCHANGED <<pump, loops, refills, ext>>

\* reset_counters, lines 491-494
ResetCounters(t) ==
    /\ th[t].pc = "idle"
    /\ atom' = [atom EXCEPT !.volume_atomized = 0, !.operation_time = 0]
    /\ clk' = [clk EXCEPT !.on_time = 0]
    /\ ev' = Event("ResetCounters", "atomizer.reset_counters", "ok", 0, 0)
    /\ UNCHANGED <<pump, loops, th, refills, status, pairs, aloop, fvars, reg, lt>>

\* get_status, lines 503-506: the operation_time of the dict it returns
CurrentOperationTime ==
    IF atom.state = "ON" /\ atom.last_start_time # 0
      THEN atom.operation_time + (clk.now - atom.last_start_time)
      ELSE atom.operation_time

\* get_status, lines 496-517; a1 is 'operation_time' and a2
\* 'estimated_volume_atomized' of the dict
AtomGetStatus(t) ==
    /\ th[t].pc = "idle"
    /\ ev' = Event("AtomGetStatus", "atomizer.get_status", "ok",
                   CurrentOperationTime, atom.volume_atomized)
    /\ UNCHANGED <<pump, loops, atom, th, refills, ext>>

\* line 627
ShutdownReturn(t) ==
    /\ th[t].pc = "sh_return"
    /\ th' = [th EXCEPT ![t] = Idle]
    /\ ev' = EventOf("ShutdownReturn", "shutdown", "ok", 0, 0, th[t])
    /\ UNCHANGED <<pump, loops, atom, refills, ext>>

NextShut ==
    \/ StartCall("ctl")
    \/ StartSet("ctl")
    \/ SetFlowRate("ctl", 16)
    \/ \E l \in LoopIds, elapsed \in 0..MaxElapsed, fault \in BOOLEAN :
          LoopTick(l, elapsed, 0, fault)
    \/ \E l \in LoopIds : LoopExit(l)
    \/ AtomStart("ctl")
    \/ \E u \in {100}, fault \in BOOLEAN : AtomTick(u, fault)
    \/ AtomLoopExit
    \/ ShutdownCall("ctl")
    \/ ShutdownStop("ctl")
    \/ StopSignal("ctl")
    \/ StopJoin("ctl")
    \/ StopOff("ctl")
    \/ StopZero("ctl")
    \/ ShutdownAtomizer("ctl")
    \/ AtomStopCall("ctl")
    \/ AtomStopJoin("ctl")
    \/ AtomStopOff("ctl")
    \/ ShutdownReturn("ctl")
    \/ TimePasses

SpecShut == Init /\ [][NextShut]_vars

(***************************************************************************)
(* One atomizer, its loop, the clock and one calling thread                *)
(***************************************************************************)
NextAtom ==
    \/ AtomStart("ctl")
    \/ AtomStop("ctl")
    \/ AtomStopCall("ctl")
    \/ AtomStopJoin("ctl")
    \/ AtomStopOff("ctl")
    \/ \E u \in {95, 105}, fault \in BOOLEAN : AtomTick(u, fault)
    \/ AtomLoopExit
    \/ ResetCounters("ctl")
    \/ AtomGetStatus("ctl")
    \/ TimePasses
    \/ \E level \in SetLevels : AtomSetPowerLevel(level)
    \/ \E frequency \in SetAtomFrequencies : AtomSetFrequency(frequency)

SpecAtom == Init /\ [][NextAtom]_vars

(***************************************************************************)
(* HardwareSimulator.add_pump, add_atomizer, get_pump, get_atomizer, lines *)
(* 565-601: two dicts, one of pumps and one of atomizers.  A pump of the   *)
(* registry is started and runs as a whole-step here; the thread of a      *)
(* replaced pump goes on with an object the registry no longer holds.      *)
(***************************************************************************)
DeviceIds == {"P1", "A1"}
InitialVolumes == {0, 16, MaxVolume}

\* d with d[key] = value
PutDevice(d, key, value) ==
    [k \in DOMAIN d \cup {key} |-> IF k = key THEN value ELSE d[k]]

\* dict.get: the device in a tuple, or the empty tuple for None
GetDevice(d, key) == IF key \in DOMAIN d THEN <<d[key]>> ELSE <<>>

\* 1 when the registry holds a pump under pump_id that is ON
HoldsOn(pump_id) ==
    IF pump_id \in DOMAIN reg.pumps /\ reg.pumps[pump_id].state = "ON" THEN 1 ELSE 0

\* as AddPump, keeping the pump a taken id already has
AddPumpKeepsFirst(pump_id, initial_volume) ==
    /\ reg' = IF pump_id \in DOMAIN reg.pumps
                THEN reg
                ELSE [reg EXCEPT !.pumps = PutDevice(@, pump_id,
                                      NewPump(initial_volume, reg.simulate_errors))]
    /\ ev' = [EventS("AddPump", "add_pump", "ok", pump_id) EXCEPT
                 !.a1 = initial_volume, !.a2 = HoldsOn(pump_id)]
    /\ UNCHANGED <<pump, loops, atom, th, refills, status, pairs, aloop, fvars, clk, lt>>

\* lines 565-578
AddPump(pump_id, initial_volume) ==
    /\ reg' = [reg EXCEPT !.pumps = PutDevice(@, pump_id,
                                      NewPump(initial_volume, reg.simulate_errors))]
    /\ ev' = [EventS("AddPump", "add_pump", "ok", pump_id) EXCEPT
                 !.a1 = initial_volume, !.a2 = HoldsOn(pump_id)]
    /\ UNCHANGED <<pump, loops, atom, th, refills, status, pairs, aloop, fvars, clk, lt>>

\* lines 580-593; initial_volume is not used
AddAtomizer(atomizer_id) ==
    /\ reg' = [reg EXCEPT !.atomizers = PutDevice(@, atomizer_id, NewAtomizer)]
    /\ ev' = EventS("AddAtomizer", "add_atomizer", "ok", atomizer_id)
    /\ UNCHANGED <<pump, loops, atom, th, refills, status, pairs, aloop, fvars, clk, lt>>

\* lines 595-597; a1 is 1 for a pump and 0 for None
GetPump(pump_id) ==
    /\ ev' = [EventS("GetPump", "get_pump", "ok", pump_id) EXCEPT
                 !.a1 = Len(GetDevice(reg.pumps, pump_id))]
    /\ UNCHANGED <<pump, loops, atom, th, refills, ext>>

\* lines 599-601
GetAtomizer(atomizer_id) ==
    /\ ev' = [EventS("GetAtomizer", "get_atomizer", "ok", atomizer_id) EXCEPT
                 !.a1 = Len(GetDevice(reg.atomizers, atomizer_id))]
    /\ UNCHANGED <<pump, loops, atom, th, refills, ext>>

\* get_pump(pump_id).set_flow_rate(rate), get_pump(pump_id).start() and one pass
\* of the loop of the pump the registry holds under pump_id
RegSetFlowRate(pump_id, rate) ==
    /\ pump_id \in DOMAIN reg.pumps
    /\ FlowRateValid(rate)
    /\ reg' = [reg EXCEPT !.pumps[pump_id] = WithFlowRate(@, rate)]
    /\ ev' = EventS("RegSetFlowRate", "set_flow_rate", "ok", pump_id)
    /\ UNCHANGED <<pump, loops, atom, th, refills, status, pairs, aloop, fvars, clk, lt>>

RegStart(pump_id) ==
    /\ pump_id \in DOMAIN reg.pumps
    /\ reg.pumps[pump_id].state = "OFF"
    /\ reg' = [reg EXCEPT !.pumps[pump_id] = Started(@)]
    /\ ev' = EventS("RegStart", "start", "ok", pump_id)
    /\ UNCHANGED <<pump, loops, atom, th, refills, status, pairs, aloop, fvars, clk, lt>>

RegTick(pump_id, fault) ==
    /\ pump_id \in DOMAIN reg.pumps
    /\ reg.pumps[pump_id].running
    /\ reg' = [reg EXCEPT !.pumps[pump_id] = TickOf(@, 1, 0, fault)]
    /\ ev' = EventS("RegTick", "_simulate_running", "none", pump_id)
    /\ UNCHANGED <<pump, loops, atom, th, refills, status, pairs, aloop, fvars, clk, lt>>

NextReg ==
    \/ \E pump_id \in DeviceIds, initial_volume \in InitialVolumes :
          AddPump(pump_id, initial_volume)
    \/ \E atomizer_id \in DeviceIds : AddAtomizer(atomizer_id)
    \/ \E pump_id \in DeviceIds : GetPump(pump_id)
    \/ \E atomizer_id \in DeviceIds : GetAtomizer(atomizer_id)
    \/ \E pump_id \in DeviceIds : RegSetFlowRate(pump_id, 16)
    \/ \E pump_id \in DeviceIds : RegStart(pump_id)
    \/ \E pump_id \in DeviceIds, fault \in BOOLEAN : RegTick(pump_id, fault)

SpecReg == Init /\ [][NextReg]_vars

(***************************************************************************)
(* One pump and two calling threads: start, stop and dispense_volume take  *)
(* no lock, so the steps of two calls interleave.                          *)
(***************************************************************************)
NextRace ==
    \/ \E t \in Threads : StartCall(t)
    \/ \E t \in Threads : StartSet(t)
    \/ \E t \in Threads : StopCall(t)
    \/ \E t \in Threads : StopSignal(t)
    \/ \E t \in Threads : StopJoin(t)
    \/ \E t \in Threads : StopOff(t)
    \/ \E t \in Threads : StopZero(t)
    \/ \E t \in Threads : DispenseCall(t, 16, 8)
    \/ \E t \in Threads : DispenseTime(t)
    \/ \E t \in Threads : DispenseUpdate(t)
    \/ \E t \in Threads : DispenseStop(t)
    \/ \E l \in LoopIds, fault \in BOOLEAN : LoopTick(l, 1, 0, fault)
    \/ \E l \in LoopIds : LoopExit(l)

SpecRace == Init /\ [][NextRace]_vars

(***************************************************************************)
(* Claims                                                                  *)
(***************************************************************************)
InStop(t) == th[t].pc \in {"stop_sig", "stop_join", "stop_off", "stop_zero"}

\* C1: a dispense_volume(V, R) that returns True leaves volume_remaining lower
\* by exactly V and total_volume_dispensed higher by exactly V than they were
\* at the call, the loop's own changes during the call included.
C1_DispenseMovesExactlyV ==
    (ev.op = "dispense_volume" /\ ev.ret = "ok") =>
        /\ ev.call.vol0 - pump.volume_remaining = ev.call.volume
        /\ pump.total_volume_dispensed - ev.call.tot0 = ev.call.volume

\* C2: volume_remaining >= 0 in every reachable state.
C2_VolumeNeverNegative == pump.volume_remaining >= 0

\* C3 as claimed: flow_rate is 0 whenever the state is not ON.
C3_FlowZeroUnlessOn == pump.state # "ON" => pump.flow_rate = 0

\* C3 as amended: flow_rate is 0 whenever the state is OFF, no stop() is between
\* its line 92 (state = OFF) and its line 93 (flow_rate = 0), and no loop thread
\* is alive; in ERROR the flow rate keeps the value of the loop's last pass.
C3_FlowZeroWhenOff ==
    ( /\ pump.state = "OFF"
      /\ \A t \in Threads : th[t].pc # "stop_zero"
      /\ \A l \in LoopIds : loops[l] # "run" ) => pump.flow_rate = 0

\* the stop that ends a dispense on a pump that was off, after the loop ran
\* with a positive flow rate during the dispense
C3_Witness ==
    /\ ev.step = "StopZero" /\ ev.op = "dispense_volume"
    /\ pump.state = "OFF" /\ pump.flow_rate = 0
    /\ pump.total_volume_dispensed > ev.call.tot0 + ev.call.volume

\* C4: once the pump is in ERROR no step takes it out of ERROR.
C4_ErrorIsTerminal == [][pump.state = "ERROR" => pump'.state = "ERROR"]_vars

\* C5: start() fails exactly when the state is not OFF at the call, and then
\* changes no field and starts no loop; otherwise it sets the state to ON, sets
\* running, starts one new loop thread and returns True.
C5_Start ==
    [][ /\ ev'.step = "StartCall" =>
            /\ ev'.ret = "fail" <=> pump.state # "OFF"
            /\ pump' = pump /\ loops' = loops
            /\ ev'.ret = "fail" => th' = th
            /\ ev'.ret # "fail" => ev'.ret = "none" /\ th'["ctl"].pc = "start_set"
        /\ (ev'.step = "StartSet" /\ ev'.op = "start") =>
            /\ ev'.ret = "ok"
            /\ pump'.state = "ON" /\ pump'.running
            /\ pump' = [pump EXCEPT !.state = "ON", !.running = TRUE,
                                    !.thread = pump'.thread]
            /\ \E l \in LoopIds :
                  /\ loops[l] = "unborn" /\ loops'[l] = "run" /\ pump'.thread = l
                  /\ \A k \in LoopIds \ {l} : loops'[k] = loops[k]
      ]_vars

C5_Witness ==
    /\ ev.step = "StartSet" /\ ev.op = "start" /\ ev.ret = "ok"
    /\ loops[1] = "done" /\ loops[2] = "run"

\* C6: stop() fails exactly when the state is not ON at the call, and then
\* changes no field; when it returns True the state is OFF and flow_rate is 0;
\* and from then on flow_rate stays 0 while the state is OFF, which only the
\* body of a successful start() ends.
C6_Stop ==
    [][ /\ ev'.step = "StopCall" =>
            /\ ev'.ret = "fail" <=> pump.state # "ON"
            /\ pump' = pump /\ loops' = loops
            /\ ev'.ret = "fail" => th' = th
        /\ (ev'.step = "StopZero" /\ ev'.ret = "ok") =>
            pump'.state = "OFF" /\ pump'.flow_rate = 0
        /\ (pump.state = "OFF" /\ pump.flow_rate = 0 /\ ~InStop("ctl")) =>
            /\ pump'.flow_rate = 0
            /\ pump'.state # "OFF" => ev'.step = "StartSet" /\ pump'.state = "ON"
      ]_vars

C6_Witness ==
    /\ ev.step = "StopZero" /\ ev.op = "stop" /\ ev.ret = "ok"
    /\ pump.target_flow_rate > 0
    /\ pump.total_volume_dispensed > 0

\* C9: dispense_volume(V, rate) with V <= 0, V > volume_remaining or a rate out
\* of range returns False and changes nothing: the pump's fields keep their
\* values, no loop is started and the caller is not left inside the call.
C9_DispenseRejected ==
    [][ ev'.step = "DispenseCall" =>
          /\ ( \/ ev'.a1 <= 0
               \/ ev'.a1 > pump.volume_remaining
               \/ ev'.a2 # NoRate /\ (ev'.a2 < 0 \/ ev'.a2 > MaxFlowRate) )
             => ev'.ret = "fail"
          /\ ev'.ret = "fail" => pump' = pump /\ loops' = loops /\ th' = th
      ]_vars

C9_Witness ==
    /\ ev.step = "DispenseCall" /\ ev.ret = "fail"
    /\ ev.a1 > 0 /\ ev.a1 <= pump.volume_remaining /\ ev.a2 > MaxFlowRate
    /\ pump.state = "OFF" /\ pump.target_flow_rate > 0

C8_RejectedSetterChangesNothing ==
    [][ /\ ev'.ret = "fail" =>
            pump' = pump /\ atom' = atom /\ loops' = loops /\ th' = th
        /\ (ev'.step = "SetFlowRate" /\ (ev'.a1 < 0 \/ ev'.a1 > MaxFlowRate)) => ev'.ret = "fail"
        /\ (ev'.step = "SetFrequency" /\ (ev'.a1 < 25 \/ ev'.a1 > 800)) => ev'.ret = "fail"
        /\ (ev'.step = "SetAmplitude" /\ (ev'.a1 < 0 \/ ev'.a1 > 100)) => ev'.ret = "fail"
        /\ (ev'.step = "SetMode" /\ ev'.s \notin {"analog", "digital", "frequency"}) => ev'.ret = "fail"
        /\ (ev'.step = "Refill" /\ ev'.a1 <= 0) => ev'.ret = "fail"
        /\ (ev'.step = "AtomSetPowerLevel" /\ (ev'.a1 < 0 \/ ev'.a1 > 100)) => ev'.ret = "fail"
        /\ (ev'.step = "AtomSetFrequency" /\ (ev'.a1 < 108 \/ ev'.a1 > 120)) => ev'.ret = "fail"
      ]_vars

\* a frequency out of range, rejected on a pump whose setpoints are not the
\* initial ones
C8_Witness ==
    /\ ev.step = "SetFrequency" /\ ev.ret = "fail" /\ ev.a1 > 800
    /\ pump.frequency # 100 /\ pump.target_flow_rate > 0 /\ pump.amplitude > 0

\* C10: target_flow_rate lies in [0,14] ml/min in every reachable state.
C10_TargetInRange == 0 <= pump.target_flow_rate /\ pump.target_flow_rate <= MaxFlowRate

\* C11: a valid set_frequency(hz) returns True, sets frequency = hz and
\* multiplies target_flow_rate by exactly f(hz)/f(previous frequency), f being
\* 1 on [100,150], 0.5 + 0.5*(hz/100) below 100 and 1 - 0.5*min(1,(hz-150)/650)
\* above 150 (here times 650000, so that it is an integer for every hz); no
\* other field changes, and get_status right after shows the rescaled target.
C11_SetFrequencyRescales ==
    [][ (ev'.step = "SetFrequency" /\ 25 <= ev'.a1 /\ ev'.a1 <= 800) =>
          LET f(hz) == IF hz < 100 THEN 650 * (500 + 5 * hz)
                       ELSE IF hz > 150 THEN 650000 - 500 * Min(650, hz - 150)
                       ELSE 650000
          IN  /\ ev'.ret = "ok"
              /\ pump'.frequency = ev'.a1
              /\ pump'.target_flow_rate * f(pump.frequency) = pump.target_flow_rate * f(ev'.a1)
              /\ pump' = [pump EXCEPT !.frequency = pump'.frequency,
                                      !.target_flow_rate = pump'.target_flow_rate]
              /\ atom' = atom /\ loops' = loops
              /\ GetStatusOf(pump').target_flow_rate * f(pump.frequency)
                    = pump.target_flow_rate * f(ev'.a1)
              /\ GetStatusOf(pump').frequency = ev'.a1
      ]_vars

\* a change from 25 Hz to 800 Hz on a pump with a positive target: both factors
\* differ from 1
C11_Witness ==
    /\ ev.step = "SetFrequency" /\ ev.ret = "ok" /\ ev.a1 = 800 /\ ev.a2 = 25
    /\ pump.frequency = 800 /\ pump.target_flow_rate > 0

\* C12: a valid set_amplitude(p) sets amplitude = p and target_flow_rate =
\* (p/100)*14*f(frequency); a valid set_frequency keeps the amplitude and keeps
\* this relation where it held; and from every state, a valid set_frequency(g)
\* followed by set_frequency of the frequency before gives back the target.
C12_AmplitudeRelation ==
    [][ LET Rel(p) == p.target_flow_rate * 100 * 1000
                        = p.amplitude * MaxFlowRate * FrequencyFactor(p.frequency)
        IN  /\ (ev'.step = "SetAmplitude" /\ 0 <= ev'.a1 /\ ev'.a1 <= 100) =>
                  ev'.ret = "ok" /\ pump'.amplitude = ev'.a1 /\ Rel(pump')
            /\ (ev'.step = "SetFrequency" /\ ev'.ret = "ok") =>
                  /\ pump'.amplitude = pump.amplitude
                  /\ Rel(pump) => Rel(pump')
                  /\ Rescaled(pump'.target_flow_rate, pump.frequency, pump'.frequency)
                        = pump.target_flow_rate
      ]_vars

\* set_amplitude(50), then two changes of frequency, the relation still holding
\* at 800 Hz with factor 0.5
C12_Witness ==
    /\ ev.step = "SetFrequency" /\ ev.ret = "ok" /\ ev.a1 = 800 /\ ev.a2 = 25
    /\ pump.amplitude = 50
    /\ pump.target_flow_rate * 100 * 1000 = 50 * MaxFlowRate * 500

\* C13: the (target_flow_rate, amplitude) pair a get_status call returns is a
\* pair the pump had between two setter calls while the get_status ran, or the
\* pair that the set_flow_rate or set_amplitude call still running will leave:
\* never one field of a call with the other field from before it.
C13_NoTornRead ==
    ev.step = "GetStatusTail" =>
        <<status.target_flow_rate, status.amplitude>> \in
            pairs.seen
            \cup (IF th["ctl"].pc = "sf_amp"
                    THEN {<<th["ctl"].arg, AmplitudeFor(th["ctl"].arg)>>} ELSE {})
            \cup (IF th["ctl"].pc = "sa_flow"
                    THEN {<<FlowForAmplitude(th["ctl"].arg, pump.frequency), th["ctl"].arg>>}
                    ELSE {})

\* C14: dispense_volumes returns only after every worker it started has ended,
\* and the dict it returns has an entry for every managed pump id of
\* volumes_dict, also when some of the dispenses fail.
C14_DispenseVolumesResults ==
    [][ (ev'.step = "CtlJoin" /\ ctl.op = "dispense_volumes") =>
          /\ \A i \in PumpIds : task[i].pc \in {"none", "done", "dead"}
          /\ DOMAIN ctl.results = ctl.asked
      ]_vars

\* C15: start_all_pumps applies the valid setpoints of flow_rates to the managed
\* pumps before any worker exists, starts one worker per managed pump, each of
\* which stores True exactly when it found its pump OFF (and then turns it on)
\* and touches no other pump and no other entry, and returns only after every
\* worker has ended, with one entry per managed pump id.
C15_StartAll ==
    [][ /\ ev'.step = "StartAllPumps" =>
            /\ \A i \in PumpIds : task[i].pc = "none" /\ task'[i].pc = "start"
            /\ DOMAIN ctl'.results = {}
            /\ floop' = floop
            /\ \A i \in PumpIds :
                  IF /\ i \in DOMAIN ctl'.rates
                     /\ 0 <= ctl'.rates[i] /\ ctl'.rates[i] <= MaxFlowRate
                    THEN /\ fleet'[i].target_flow_rate = ctl'.rates[i]
                         /\ fleet'[i].state = fleet[i].state
                    ELSE fleet'[i] = fleet[i]
        /\ (ev'.step = "TaskStart" /\ ctl.op = "start_all_pumps") =>
            \E i \in PumpIds :
               /\ ev'.s = i
               /\ i \notin DOMAIN ctl.results
               /\ DOMAIN ctl'.results = DOMAIN ctl.results \cup {i}
               /\ ctl'.results[i] = (fleet[i].state = "OFF")
               /\ ctl'.results[i] => fleet'[i].state = "ON" /\ floop'[i] = "run"
               /\ ~ctl'.results[i] => fleet'[i] = fleet[i] /\ floop'[i] = floop[i]
               /\ fleet'[i].target_flow_rate = fleet[i].target_flow_rate
               /\ \A k \in PumpIds \ {i} :
                     /\ fleet'[k] = fleet[k] /\ floop'[k] = floop[k]
                     /\ k \in DOMAIN ctl.results => ctl'.results[k] = ctl.results[k]
        /\ (ev'.step = "CtlJoin" /\ ctl.op = "start_all_pumps") =>
            /\ \A i \in PumpIds : task[i].pc = "done"
            /\ DOMAIN ctl.results = PumpIds
      ]_vars

\* the last worker of a start_all_pumps has stored its result: P1, in ERROR, was
\* not started, P2 was
C15_Witness ==
    /\ ev.step = "TaskStart" /\ ctl.op = "start_all_pumps"
    /\ DOMAIN ctl.results = PumpIds
    /\ ~ctl.results["P1"] /\ ctl.results["P2"]
    /\ fleet["P1"].state = "ERROR" /\ fleet["P2"].state = "ON"

\* C16: inside one step of run_synchronized_sequence the setters of set_frequency,
\* set_amplitude and set_mode come first, then set_flow_rates, then
\* start_all_pumps, then dispense_volumes, then the stops: the step never goes
\* back to an earlier phase, each call is made in its own phase, the start
\* workers run and end before dispense_volumes is called, the dispense workers
\* run and end before the first stop is issued, and no stop is issued while the
\* stop before it is running.
C16_PhaseOrder ==
    [][ LET rank(pc) == CASE pc = "delay" -> 0 [] pc = "flow" -> 1 [] pc = "start" -> 2
                          [] pc = "dispense" -> 3 [] pc = "stop" -> 4 [] OTHER -> 5
            quiet == \A i \in PumpIds : task[i].pc \in {"none", "done", "dead"}
        IN  /\ (seq.pc # "none" /\ seq'.pc # "none" /\ seq'.k = seq.k) =>
                  rank(seq'.pc) >= rank(seq.pc)
            /\ ev'.step = "SeqOrganise" => seq.pc = "delay" /\ quiet /\ ctl.pc = "idle"
            /\ ev'.step = "SetFlowRates" => seq.pc = "flow" /\ quiet /\ ctl.pc = "idle"
            /\ ev'.step = "StartAllPumps" => seq.pc = "start" /\ quiet /\ ctl.pc = "idle"
            /\ ev'.step = "TaskStart" =>
                  seq.pc = "dispense" /\ ctl.pc = "join" /\ ctl.op = "start_all_pumps"
            /\ ev'.step = "DispenseVolumes" => seq.pc = "dispense" /\ quiet /\ ctl.pc = "idle"
            /\ ev'.step \in {"TaskDispenseCall", "TaskDispenseTime", "TaskDispenseUpdate",
                             "TaskDispenseStop"} =>
                  seq.pc = "stop" /\ ctl.pc = "join" /\ ctl.op = "dispense_volumes"
            /\ ev'.step = "SeqStop" => seq.pc = "stop" /\ quiet /\ ctl.pc = "idle"
            /\ ev'.step = "TaskStop" => seq.pc = "stop" /\ ctl.pc = "idle"
            /\ ev'.step = "SeqEndStep" => seq.pc = "stop" /\ quiet /\ ctl.pc = "idle"
      ]_vars

\* the stop of P2 is issued in a step that also dispensed from P1, after that
\* dispense has moved its volume
C16_Witness ==
    /\ ev.step = "SeqStop" /\ ev.s = "P2"
    /\ seq.pc = "stop" /\ OpsOf(CurrentStep.pumps, "dispense") = {"P1"}
    /\ fleet["P1"].total_volume_dispensed >= 16
    /\ fleet["P2"].state = "ON"

\* C17: run_synchronized_sequence takes the steps in list order, one after the
\* whole of the one before, and sleeps the whole delay of a step before the
\* first action of that step; while it sleeps no worker exists and only the
\* pumps' own loops change a pump.
C17_DelayFirst ==
    [][ /\ ev'.step = "SeqOrganise" => seq.slept = CurrentStep.delay
        /\ seq.pc = "delay" =>
              /\ \A i \in PumpIds : task[i].pc = "none" /\ task'[i].pc = "none"
              /\ fleet' # fleet => ev'.step \in {"FleetTick", "FleetLoopExit", "SeqOrganise"}
        /\ (seq.pc # "none" /\ seq'.pc # "none") =>
              /\ seq'.steps = seq.steps
              /\ seq'.k = IF ev'.step = "SeqEndStep" THEN seq.k + 1 ELSE seq.k
        /\ ev'.step = "RunSequence" => seq'.k = 1 /\ seq'.slept = 0
        /\ (ev'.step = "SeqEndStep" /\ ev'.ret = "ok") => seq.k = Len(seq.steps)
      ]_vars

\* the second step of a sequence begins after its two seconds of delay, during
\* which the loop of P1, started by the first step, has been dispensing
C17_Witness ==
    /\ ev.step = "SeqOrganise" /\ seq.k = 2 /\ seq.slept = 2
    /\ fleet["P1"].state = "ON" /\ fleet["P1"].total_volume_dispensed > 0

\* C18: set_pump_parameters calls the setters of the keywords it was given in
\* the order frequency, amplitude, mode, flow_rate, each whatever the result of
\* the ones before, so that a valid flow_rate decides the final setpoint and
\* amplitude; it returns success exactly when every setter it called accepted,
\* with the result of each under its keyword; on an unknown pump id it returns
\* the failure at once and no pump or atomizer changes.
C18_SetPumpParameters ==
    [][LET params == ctl.rates
           p == fleet[ParamsPump]
           q == fleet'[ParamsPump]
           Valid(key) == CASE key = "frequency" -> params.frequency >= 25 /\ params.frequency <= 800
                           [] key = "amplitude" -> params.amplitude >= 0 /\ params.amplitude <= 100
                           [] key = "mode" -> params.mode \in {"analog", "digital", "frequency"}
                           [] key = "flow_rate" -> params.flow_rate >= 0 /\ params.flow_rate <= MaxFlowRate
       IN
       /\ (ev'.step = "SetParamsCall" /\ ev'.s \notin PumpIds) =>
             /\ ev'.ret = "fail"
             /\ ctl'.pc = "idle"
             /\ fleet' = fleet /\ pump' = pump /\ atom' = atom
       /\ (ev'.step = "SetParamsCall" /\ ev'.s \in PumpIds) =>
             /\ ctl'.pc = "sp_frequency"
             /\ fleet' = fleet
       /\ ev'.step = "SetParamsFrequency" =>
             /\ ctl'.pc = "sp_amplitude"
             /\ ("frequency" \in params.has /\ Valid("frequency")) => q.frequency = params.frequency
             /\ ("frequency" \notin params.has \/ ~Valid("frequency")) => fleet' = fleet
       /\ ev'.step = "SetParamsAmplitude" =>
             /\ ctl'.pc = "sp_mode"
             /\ ("amplitude" \in params.has /\ Valid("amplitude")) => q.amplitude = params.amplitude
             /\ ("amplitude" \notin params.has \/ ~Valid("amplitude")) => fleet' = fleet
       /\ ev'.step = "SetParamsMode" =>
             /\ ctl'.pc = "sp_flow_rate"
             /\ ("mode" \in params.has /\ Valid("mode")) => q.mode = params.mode
             /\ ("mode" \notin params.has \/ ~Valid("mode")) => fleet' = fleet
       /\ ev'.step = "SetParamsFlowRate" =>
             /\ ctl'.pc = "sp_return"
             /\ ("flow_rate" \in params.has /\ Valid("flow_rate")) =>
                   /\ q.target_flow_rate = params.flow_rate
                   /\ q.amplitude * MaxFlowRate <= 100 * params.flow_rate
                   /\ (q.amplitude + 1) * MaxFlowRate > 100 * params.flow_rate \/ q.amplitude = 100
             /\ ("flow_rate" \notin params.has \/ ~Valid("flow_rate")) => fleet' = fleet
       /\ ev'.step = "SetParamsReturn" =>
             /\ DOMAIN ctl.results = params.has \cup {"success"}
             /\ \A key \in params.has : ctl.results[key] = Valid(key)
             /\ (ev'.ret = "ok") = (\A key \in params.has : Valid(key))
             /\ ev'.ret \in {"ok", "fail"}
             /\ fleet' = fleet
             /\ ("flow_rate" \in params.has /\ Valid("flow_rate")) =>
                   /\ p.target_flow_rate = params.flow_rate
                   /\ p.amplitude = Min(100, (100 * params.flow_rate) \div MaxFlowRate)
             /\ ("mode" \in params.has /\ Valid("mode")) => p.mode = params.mode
             /\ ("frequency" \in params.has /\ Valid("frequency")) =>
                   p.frequency = params.frequency
       /\ \A i \in PumpIds :
             (ev'.op = "set_pump_parameters" /\ i # ev'.s) => fleet'[i] = fleet[i]
    ]_vars

\* set_pump_parameters is about to return a failure for a rejected frequency,
\* with the mode, the amplitude and the flow rate that came after it applied
C18_Witness ==
    /\ ctl.pc = "sp_return"
    /\ ctl.rates.has = {"frequency", "amplitude", "mode", "flow_rate"}
    /\ ~ctl.results["success"]
    /\ ~ctl.results["frequency"]
    /\ ctl.results["amplitude"] /\ ctl.results["mode"] /\ ctl.results["flow_rate"]
    /\ fleet["P1"].mode = "digital"
    /\ fleet["P1"].target_flow_rate = 8
    /\ fleet["P1"].amplitude = 1
    /\ fleet["P1"].state = "ON"

\* C19: total_volume_dispensed of the pump never decreases: no step of the
\* loop, of dispense_volume, refill, start or stop leaves it smaller than it
\* was.
C19_TotalNeverDecreases ==
    [][pump'.total_volume_dispensed >= pump.total_volume_dispensed]_vars

\* C20: shutdown leaves the pump and the atomizer that were ON when it was
\* called in state OFF with no loop of theirs running, leaves a device that was
\* OFF or in ERROR exactly as it was, and, called when no device is ON,
\* changes nothing.
C20_ShutdownStopsAll ==
    [][ev'.step = "ShutdownReturn" =>
          LET pump0 == th["ctl"].snap[1]
              atom0 == th["ctl"].snap[2]
          IN  /\ pump0.state = "ON" =>
                    pump'.state = "OFF" /\ \A l \in LoopIds : loops'[l] # "run"
              /\ atom0.state = "ON" => atom'.state = "OFF" /\ aloop' # "run"
              /\ pump0.state # "ON" => pump' = pump0
              /\ atom0.state # "ON" => atom' = atom0
    ]_vars

\* as C20, a device that was ON ending OFF or in ERROR
C20_ShutdownHaltsAll ==
    [][ev'.step = "ShutdownReturn" =>
          LET pump0 == th["ctl"].snap[1]
              atom0 == th["ctl"].snap[2]
          IN  /\ pump0.state = "ON" =>
                    /\ pump'.state \in {"OFF", "ERROR"}
                    /\ ~pump'.running
                    /\ \A l \in LoopIds : loops'[l] # "run"
              /\ atom0.state = "ON" =>
                    /\ atom'.state \in {"OFF", "ERROR"}
                    /\ ~atom'.running
                    /\ aloop' # "run"
              /\ pump0.state # "ON" => pump' = pump0
              /\ atom0.state # "ON" => atom' = atom0
    ]_vars

\* shutdown is about to return after it has stopped a pump and an atomizer
\* that were both ON
C20_Witness ==
    /\ th["ctl"].pc = "sh_return"
    /\ th["ctl"].snap[1].state = "ON"
    /\ th["ctl"].snap[2].state = "ON"
    /\ th["ctl"].snap[1].flow_rate > 0
    /\ pump.state = "OFF" /\ pump.flow_rate = 0
    /\ atom.state = "OFF" /\ atom.operation_time > 0
    /\ aloop = "done"
    /\ \A l \in LoopIds : loops[l] # "run"

\* C21: add_pump puts a new OFF pump with the given volume under the id,
\* whatever the registry held there before (an ON pump too), and touches no
\* other pump and no atomizer; add_atomizer touches no pump; get_pump and
\* get_atomizer of an id their dict does not hold return None, raise nothing
\* and change nothing.
C21_RegistryLastWriteWins ==
    [][/\ ev'.step = "AddPump" =>
             /\ ev'.ret = "ok"
             /\ DOMAIN reg'.pumps = DOMAIN reg.pumps \cup {ev'.s}
             /\ reg'.pumps[ev'.s].state = "OFF"
             /\ ~reg'.pumps[ev'.s].running
             /\ reg'.pumps[ev'.s].volume_remaining = ev'.a1
             /\ reg'.pumps[ev'.s].flow_rate = 0
             /\ reg'.pumps[ev'.s].target_flow_rate = 0
             /\ reg'.pumps[ev'.s].total_volume_dispensed = 0
             /\ \A k \in DOMAIN reg.pumps \ {ev'.s} : reg'.pumps[k] = reg.pumps[k]
             /\ reg'.atomizers = reg.atomizers
       /\ ev'.step = "AddAtomizer" =>
             /\ ev'.ret = "ok"
             /\ DOMAIN reg'.atomizers = DOMAIN reg.atomizers \cup {ev'.s}
             /\ reg'.atomizers[ev'.s].state = "OFF"
             /\ \A k \in DOMAIN reg.atomizers \ {ev'.s} : reg'.atomizers[k] = reg.atomizers[k]
             /\ reg'.pumps = reg.pumps
       /\ ev'.step = "GetPump" =>
             /\ ev'.ret = "ok"
             /\ ev'.a1 = (IF ev'.s \in DOMAIN reg.pumps THEN 1 ELSE 0)
             /\ reg' = reg
       /\ ev'.step = "GetAtomizer" =>
             /\ ev'.ret = "ok"
             /\ ev'.a1 = (IF ev'.s \in DOMAIN reg.atomizers THEN 1 ELSE 0)
             /\ reg' = reg
    ]_vars

\* add_pump has just replaced a pump that was ON, under an id
\* that an atomizer has too
C21_Witness ==
    /\ ev.step = "AddPump"
    /\ ev.a2 = 1
    /\ ev.a1 = 16
    /\ ev.s \in DOMAIN reg.atomizers
    /\ reg.pumps[ev.s].state = "OFF"
    /\ reg.pumps[ev.s].volume_remaining = 16

\* C22: the atomizer's start succeeds exactly from OFF and its stop exactly
\* from ON, a stop that succeeds adds the time since the start to
\* operation_time, and whenever the atomizer is OFF between two calls
\* operation_time is the time it has been ON since the last reset_counters.
C22_OperationTimeIsOnTime ==
    [][/\ ev'.step = "AtomStart" => (ev'.ret = "ok") = (atom.state = "OFF")
       /\ ev'.step = "AtomStopCall" =>
             /\ atom.state = "ON" => ev'.ret = "none" /\ ~atom'.running
             /\ (atom.state # "ON" /\ ev'.op = "atomizer.stop") =>
                   ev'.ret = "fail" /\ atom' = atom
       /\ ev'.step = "AtomStopOff" =>
             /\ atom'.state = "OFF"
             /\ atom'.operation_time = atom.operation_time + (clk.now - atom.last_start_time)
       /\ (atom'.state = "OFF" /\ th'["ctl"].pc = "idle") =>
             atom'.operation_time = clk'.on_time
    ]_vars

\* C23: reset_counters sets volume_atomized and operation_time to 0 whatever
\* the state of the atomizer, and the operation_time that get_status reports
\* for an atomizer that is OFF or ON is the time it has been ON since the
\* last reset_counters.
C23_ResetCounters ==
    [][/\ ev'.step = "ResetCounters" =>
             /\ ev'.ret = "ok"
             /\ atom'.volume_atomized = 0
             /\ atom'.operation_time = 0
       /\ (ev'.step = "AtomGetStatus" /\ atom.state # "ERROR") => ev'.a1 = clk.on_time
    ]_vars

C25_OneLoop == Cardinality({l \in LoopIds : loops[l] = "run"}) <= 1

\* C26: a pass of the loop whose volume (flow_rate / 60 * elapsed, with the
\* flow rate the pass has computed) exceeds volume_remaining adds
\* volume_remaining to total_volume_dispensed, sets volume_remaining to 0 and
\* the state to ERROR, ends the loop and leaves flow_rate at the value the pass
\* computed; and a pass that takes time on a running pump with a positive
\* flow_rate and no volume left leaves the pump in ERROR.
C26_RunsDry ==
    [][ev'.step = "LoopTick" =>
          LET elapsed == ev'.a1
              change == (2 * FlowScale * elapsed) \div TimeScale
              flow == IF pump.flow_rate < pump.target_flow_rate
                        THEN Min(pump.target_flow_rate, pump.flow_rate + change)
                        ELSE Max(pump.target_flow_rate, pump.flow_rate - change)
          IN  /\ flow * elapsed > pump.volume_remaining =>
                    /\ pump'.total_volume_dispensed =
                          pump.total_volume_dispensed + pump.volume_remaining
                    /\ pump'.volume_remaining = 0
                    /\ pump'.state = "ERROR"
                    /\ ~pump'.running
                    /\ \A l \in LoopIds : loops[l] = "run" => loops'[l] = "done"
                    /\ pump'.flow_rate = flow
              /\ (elapsed > 0 /\ pump.flow_rate > 0 /\ pump.volume_remaining <= 0) =>
                    pump'.state = "ERROR"
    ]_vars

\* as C26, for a pass whose volume is positive, and for a pump whose flow_rate
\* is still positive after the pass has moved it toward the setpoint
C26_RunsDryAtPositiveVolume ==
    [][ev'.step = "LoopTick" =>
          LET elapsed == ev'.a1
              change == (2 * FlowScale * elapsed) \div TimeScale
              flow == IF pump.flow_rate < pump.target_flow_rate
                        THEN Min(pump.target_flow_rate, pump.flow_rate + change)
                        ELSE Max(pump.target_flow_rate, pump.flow_rate - change)
          IN  /\ (flow * elapsed > 0 /\ flow * elapsed > pump.volume_remaining) =>
                    /\ pump'.total_volume_dispensed =
                          pump.total_volume_dispensed + pump.volume_remaining
                    /\ pump'.volume_remaining = 0
                    /\ pump'.state = "ERROR"
                    /\ ~pump'.running
                    /\ \A l \in LoopIds : loops[l] = "run" => loops'[l] = "done"
                    /\ pump'.flow_rate = flow
              /\ (elapsed > 0 /\ flow > 0 /\ pump.volume_remaining <= 0) =>
                    pump'.state = "ERROR"
    ]_vars

\* the loop of a pump without simulated errors has just ended in ERROR, the
\* flow rate of its last pass kept
C26_Witness ==
    /\ ev.step = "LoopTick"
    /\ ~pump.simulate_errors
    /\ pump.state = "ERROR"
    /\ ~pump.running
    /\ pump.volume_remaining = 0
    /\ pump.flow_rate > 0
    /\ pump.total_volume_dispensed = MaxVolume
    /\ \A l \in LoopIds : loops[l] # "run"

C28_Converges ==
    /\ \A v \in {0} \cup RunRates :
          <>[](pump.state = "ON" /\ pump.target_flow_rate = v)
             => <>[](pump.flow_rate = v)
    /\ [](pump.target_flow_rate = 0) => [](pump.flow_rate = 0)

\* the loop has reached a positive setpoint and has run a further pass at it
C28_Witness ==
    /\ ev.step = "LoopTick"
    /\ ev.a1 = 1
    /\ pump.state = "ON"
    /\ pump.target_flow_rate = 8
    /\ pump.flow_rate = 8
    /\ pump.total_volume_dispensed = 24
    /\ pump.volume_remaining = 8
    /\ refills = 0

\* C29: once stop has cleared self.running (line 89) the loop runs no further
\* pass and ends; from the return of the join until the next start no loop is
\* alive, so that no step of a loop changes the pump after stop has returned.
C29_StopHaltsLoop ==
    /\ [][/\ ev'.step = "LoopTick" =>
                /\ pump.running
                /\ \A t \in Callers : th[t].pc \notin {"stop_join", "stop_off", "stop_zero"}
          /\ ev'.step \in {"LoopTick", "LoopExit"} => pump.state # "OFF"
          /\ (\E t \in Callers : th'[t].pc \in {"stop_off", "stop_zero"}) \/ pump'.state = "OFF"
                => \A l \in LoopIds : loops'[l] # "run"
       ]_vars
    /\ \A t \in Callers :
          th[t].pc = "stop_join" ~> (pump.thread = 0 \/ loops[pump.thread] = "done")

\* stop has returned on a pump whose loop had dispensed: the loop has ended
C29_Witness ==
    /\ ev.step = "StopZero"
    /\ ev.op = "stop"
    /\ ev.ret = "ok"
    /\ pump.state = "OFF"
    /\ pump.flow_rate = 0
    /\ pump.total_volume_dispensed > 0
    /\ pump.thread # 0
    /\ loops[pump.thread] = "done"

\* C30: when a dispense_volume call that found the pump OFF ends, it ends by
\* returning True or False, and the pump is OFF or in ERROR.
C30_DispenseLeavesOff ==
    /\ ev.op = "dispense_volume"
    /\ ev.ret # "none"
    /\ ev.call.was_off \/ (ev.step = "DispenseCall" /\ pump.state = "OFF")
    => /\ ev.ret \in {"ok", "fail"}
       /\ pump.state \in {"OFF", "ERROR"}

(***************************************************************************)
(* The volume specification: one pump, its loop and one caller, with the   *)
(* updates of volume_remaining and total_volume_dispensed taken apart.      *)
(* "x += v" loads x, adds and stores x; no lock is held (the class has     *)
(* none), so the other thread can run between the load and the store.      *)
(***************************************************************************)
MaxTotal == 32   \* dispense_volume is called while total_volume_dispensed is at most this

\* lines 305-323: the ramp, the local volume_dispensed and the test of its sign
PassBegin(l, elapsed) ==
    /\ loops[l] = "run"
    /\ pump.running
    /\ lt.pc = "top"
    /\ LET flow == Ramp(pump.flow_rate, pump.target_flow_rate, elapsed)
           vd == VolumeDispensed(flow, elapsed)
       IN  /\ pump' = [pump EXCEPT !.flow_rate = flow]
           /\ lt' = [pc |-> IF vd > 0 THEN "test" ELSE "end", vd |-> vd, r |-> 0]
    /\ ev' = Event("PassBegin", "_simulate_running", "none", elapsed, 0)
    /\ UNCHANGED <<loops, atom, th, refills, status, pairs, aloop, fvars, reg, clk>>

\* line 324
PassTest(l) ==
    /\ loops[l] = "run"
    /\ lt.pc = "test"
    /\ lt' = [lt EXCEPT !.pc = IF lt.vd <= pump.volume_remaining
                                 THEN "rem_load" ELSE "out_load"]
    /\ ev' = Event("PassTest", "_simulate_running", "none", 0, 0)
    /\ UNCHANGED <<pump, loops, atom, th, refills, status, pairs, aloop, fvars, reg, clk>>

\* line 325, the load of self.volume_remaining
PassRemLoad(l) ==
    /\ loops[l] = "run"
    /\ lt.pc = "rem_load"
    /\ lt' = [lt EXCEPT !.pc = "rem_store", !.r = pump.volume_remaining]
    /\ ev' = Event("PassRemLoad", "_simulate_running", "none", 0, 0)
    /\ UNCHANGED <<pump, loops, atom, th, refills, status, pairs, aloop, fvars, reg, clk>>

\* line 325, the store
PassRemStore(l) ==
    /\ loops[l] = "run"
    /\ lt.pc = "rem_store"
    /\ pump' = [pump EXCEPT !.volume_remaining = lt.r - lt.vd]
    /\ lt' = [lt EXCEPT !.pc = "tot_load"]
    /\ ev' = Event("PassRemStore", "_simulate_running", "none", 0, 0)
    /\ UNCHANGED <<loops, atom, th, refills, status, pairs, aloop, fvars, reg, clk>>

\* line 326, the load of self.total_volume_dispensed
PassTotLoad(l) ==
    /\ loops[l] = "run"
    /\ lt.pc = "tot_load"
    /\ lt' = [lt EXCEPT !.pc = "tot_store", !.r = pump.total_volume_dispensed]
    /\ ev' = Event("PassTotLoad", "_simulate_running", "none", 0, 0)
    /\ UNCHANGED <<pump, loops, atom, th, refills, status, pairs, aloop, fvars, reg, clk>>

\* line 326, the store
PassTotStore(l) ==
    /\ loops[l] = "run"
    /\ lt.pc = "tot_store"
    /\ pump' = [pump EXCEPT !.total_volume_dispensed = lt.r + lt.vd]
    /\ lt' = [lt EXCEPT !.pc = "end"]
    /\ ev' = Event("PassTotStore", "_simulate_running", "none", 0, 0)
    /\ UNCHANGED <<loops, atom, th, refills, status, pairs, aloop, fvars, reg, clk>>

\* line 329, the two loads and the addition
PassOutLoad(l) ==
    /\ loops[l] = "run"
    /\ lt.pc = "out_load"
    /\ lt' = [lt EXCEPT !.pc = "out_store",
                        !.r = pump.total_volume_dispensed + pump.volume_remaining]
    /\ ev' = Event("PassOutLoad", "_simulate_running", "none", 0, 0)
    /\ UNCHANGED <<pump, loops, atom, th, refills, status, pairs, aloop, fvars, reg, clk>>

\* line 329, the store
PassOutStore(l) ==
    /\ loops[l] = "run"
    /\ lt.pc = "out_store"
    /\ pump' = [pump EXCEPT !.total_volume_dispensed = lt.r]
    /\ lt' = [lt EXCEPT !.pc = "out_zero"]
    /\ ev' = Event("PassOutStore", "_simulate_running", "none", 0, 0)
    /\ UNCHANGED <<loops, atom, th, refills, status, pairs, aloop, fvars, reg, clk>>

\* lines 330-334; the loop ends by break
PassOutZero(l) ==
    /\ loops[l] = "run"
    /\ lt.pc = "out_zero"
    /\ pump' = [pump EXCEPT !.volume_remaining = 0, !.state = "ERROR", !.running = FALSE]
    /\ loops' = [loops EXCEPT ![l] = "done"]
    /\ lt' = LoopTop
    /\ ev' = Event("PassOutZero", "_simulate_running", "none", 0, 0)
    /\ UNCHANGED <<atom, th, refills, status, pairs, aloop, fvars, reg, clk>>

\* lines 337-346: the pressure (with a variation of 0 here), the simulated
\* fault, the sleep
PassEnd(l, fault) ==
    /\ loops[l] = "run"
    /\ lt.pc = "end"
    /\ pump' = IF pump.simulate_errors /\ fault
                 THEN [pump EXCEPT !.pressure = Jitter(@, 0), !.state = "ERROR",
                                   !.running = FALSE]
                 ELSE [pump EXCEPT !.pressure = Jitter(@, 0)]
    /\ loops' = [loops EXCEPT ![l] = IF pump'.running THEN "run" ELSE "done"]
    /\ lt' = LoopTop
    /\ ev' = Event("PassEnd", "_simulate_running", "none", 0, 0)
    /\ UNCHANGED <<atom, th, refills, status, pairs, aloop, fvars, reg, clk>>

\* refill, lines 271-275: the test and the load of self.volume_remaining
RefillLoad(t, volume) ==
    /\ th[t].pc = "idle"
    /\ IF volume <= 0
         THEN /\ th' = th
              /\ ev' = Event("Refill", "refill", "fail", volume, 0)
         ELSE /\ refills < MaxRefills
              /\ th' = [th EXCEPT ![t] = [Idle EXCEPT !.pc = "rf_store", !.op = "refill",
                                                      !.volume = volume,
                                                      !.arg = pump.volume_remaining]]
              /\ ev' = Event("RefillLoad", "refill", "none", volume, 0)
    /\ UNCHANGED <<pump, loops, atom, refills, ext>>

\* refill, lines 275-277: the store, and the return
RefillStore(t) ==
    /\ th[t].pc = "rf_store"
    /\ pump' = [pump EXCEPT !.volume_remaining = th[t].arg + th[t].volume]
    /\ refills' = refills + 1
    /\ th' = [th EXCEPT ![t] = Idle]
    /\ ev' = Event("Refill", "refill", "ok", th[t].volume, 0)
    /\ UNCHANGED <<loops, atom, ext>>

\* dispense_volume, line 251 (after the sleep), the load
DispenseTotLoad(t) ==
    /\ th[t].pc = "d_sleep"
    /\ th' = [th EXCEPT ![t].pc = "d_tot_store", ![t].arg = pump.total_volume_dispensed]
    /\ ev' = Event("DispenseTotLoad", "dispense_volume", "none", 0, 0)
    /\ UNCHANGED <<pump, loops, atom, refills, ext>>

\* line 251, the store
DispenseTotStore(t) ==
    /\ th[t].pc = "d_tot_store"
    /\ pump' = [pump EXCEPT !.total_volume_dispensed = th[t].arg + th[t].volume]
    /\ th' = [th EXCEPT ![t].pc = "d_rem_load"]
    /\ ev' = Event("DispenseTotStore", "dispense_volume", "none", 0, 0)
    /\ UNCHANGED <<loops, atom, refills, ext>>

\* line 252, the load
DispenseRemLoad(t) ==
    /\ th[t].pc = "d_rem_load"
    /\ th' = [th EXCEPT ![t].pc = "d_rem_store", ![t].arg = pump.volume_remaining]
    /\ ev' = Event("DispenseRemLoad", "dispense_volume", "none", 0, 0)
    /\ UNCHANGED <<pump, loops, atom, refills, ext>>

\* line 252, the store; when the pump was not off, lines 258-259
DispenseRemStore(t) ==
    /\ th[t].pc = "d_rem_store"
    /\ pump' = [pump EXCEPT !.volume_remaining = th[t].arg - th[t].volume]
    /\ IF th[t].was_off
         THEN /\ th' = [th EXCEPT ![t].pc = "d_stop"]
              /\ ev' = Event("DispenseUpdate", "dispense_volume", "none", 0, 0)
         ELSE /\ th' = [th EXCEPT ![t] = Idle]
              /\ ev' = EventOf("DispenseUpdate", "dispense_volume", "ok", 0, 0, th[t])
    /\ UNCHANGED <<loops, atom, refills, ext>>

NextVol ==
    \/ \E t \in Callers : StartCall(t)
    \/ \E t \in Callers : StartSet(t)
    \/ \E t \in Callers : StopCall(t)
    \/ \E t \in Callers : StopSignal(t)
    \/ \E t \in Callers : StopJoin(t)
    \/ \E t \in Callers : StopOff(t)
    \/ \E t \in Callers : StopZero(t)
    \/ \E t \in Callers : SetFlowRate(t, 8)
    \/ \E t \in Callers, volume \in RefillVolumes : RefillLoad(t, volume)
    \/ \E t \in Callers : RefillStore(t)
    \/ \E t \in Callers, rate \in {8, NoRate} :
          /\ pump.total_volume_dispensed <= MaxTotal
          /\ DispenseCall(t, 16, rate)
    \/ \E t \in Callers : DispenseTime(t)
    \/ \E t \in Callers : DispenseTotLoad(t)
    \/ \E t \in Callers : DispenseTotStore(t)
    \/ \E t \in Callers : DispenseRemLoad(t)
    \/ \E t \in Callers : DispenseRemStore(t)
    \/ \E t \in Callers : DispenseStop(t)
    \/ \E l \in LoopIds, elapsed \in {0, MaxElapsed} : PassBegin(l, elapsed)
    \/ \E l \in LoopIds : PassTest(l)
    \/ \E l \in LoopIds : PassRemLoad(l)
    \/ \E l \in LoopIds : PassRemStore(l)
    \/ \E l \in LoopIds : PassTotLoad(l)
    \/ \E l \in LoopIds : PassTotStore(l)
    \/ \E l \in LoopIds : PassOutLoad(l)
    \/ \E l \in LoopIds : PassOutStore(l)
    \/ \E l \in LoopIds : PassOutZero(l)
    \/ \E l \in LoopIds, fault \in BOOLEAN : PassEnd(l, fault)
    \/ \E l \in LoopIds : lt.pc = "top" /\ LoopExit(l)

SpecVol == Init /\ [][NextVol]_vars

\* C31: whenever neither thread is between the first load and the last store
\* of an update of volume_remaining and total_volume_dispensed, their sum is the
\* initial volume plus the accepted refills (each of which adds the one positive
\* volume of RefillVolumes).
C31_VolumeConserved ==
    /\ lt.pc \in {"top", "end"}
    /\ \A t \in Callers :
          th[t].pc \notin {"rf_store", "d_tot_store", "d_rem_load", "d_rem_store"}
    => pump.volume_remaining + pump.total_volume_dispensed
          = MaxVolume + refills * (CHOOSE v \in RefillVolumes : v > 0)

\* C32: while the start phase of a sequence step is going on, a managed pump
\* the step does not give the action 'start' stays OFF if it was OFF and keeps
\* its setpoints.
C32_StepStartsOnlyNamed ==
    [][seq.pc # "none" /\ ctl.op = "start_all_pumps" =>
          \A i \in PumpIds \ OpsOf(CurrentStep.pumps, "start") :
             /\ fleet[i].state = "OFF" => fleet'[i].state = "OFF"
             /\ fleet'[i].target_flow_rate = fleet[i].target_flow_rate
             /\ fleet'[i].frequency = fleet[i].frequency
             /\ fleet'[i].amplitude = fleet[i].amplitude
             /\ fleet'[i].mode = fleet[i].mode
    ]_vars

====
